---- MODULE Spec2Model ----
(***************************************************************************)
(* Transcript aggregation and structured-summary pipeline of momentum_be  *)
(* (src/src/services/ai_summary_pipeline.py): the Normalizer               *)
(* (_process_transcript_data), the Extractor (_call_gemini_api,             *)
(* _extract_structured_summary) and the Persister (process_meeting_summary,*)
(* _save_summary_components, get_meeting_summary) over the durable store.  *)
(*                                                                         *)
(* Python strings are TLA+ strings; a Python float timestamp is an integer *)
(* (only its order is used); None is the empty tuple where a value may be  *)
(* absent.                                                                 *)
(***************************************************************************)
EXTENDS Integers, Sequences, FiniteSets, TLC

VARIABLES
    \* ---- Normalizer harness (SpecNormalizer)
    transcripts,          \* the rows handed to _process_transcript_data, in arrival order
    transcript_text,      \* its outcome: [raised, text]
    normalized,           \* TRUE once transcript_text holds the result for transcripts
    final_transcript,     \* what summarize_transcript built from the same payloads
    \* ---- Extractor harness (SpecExtractor)
    api_key,              \* self.api_key, "" when not configured
    prompt_text,          \* the transcript text handed to _extract_structured_summary
    model_outcome,        \* what the external model does when called
    extraction,           \* the Extractor's outcome: [raised, value, called]
    extracted,            \* TRUE once extraction holds the result
    \* ---- the durable store (tables, rows in insertion order)
    meeting_transcripts,
    meeting_summaries,
    action_items,
    meeting_decisions,
    meeting_discussions,
    meeting_jargon,
    meeting_themes,
    action_ids,           \* how many ids the store has given to rows of action_items
    now,                  \* the last reading of the clock any datetime.utcnow() made
    store_failures,       \* store operations that have failed so far
    \* ---- the requests in flight
    runs,                 \* process_meeting_summary calls: position and locals of each
    read_result,          \* the get_meeting_summary call: its position, what it has read
                          \* so far and what it returned, until the store moves on
    webhook,              \* the webhook deliveries handled: how many, the last request
                          \* and the response it got
    \* ---- meetings and recording sessions (routers/recall.py)
    meetings,             \* the meetings table: bot_id and meeting_status of each meeting
    recall_sessions,      \* the recall_sessions table, rows in insertion order
    bots,                 \* how many bots the recording service has created
    recordings,           \* start-recording and stop-recording requests in flight
    processings,          \* auto-process and process-structured-summary requests
    edit_result           \* the requests to the edit routes (direct update, review of an
                          \* edit request, action items): position and response of each

nvars == <<transcripts, transcript_text, normalized, final_transcript>>

xvars == <<api_key, prompt_text, model_outcome, extraction, extracted>>

tables == <<meeting_summaries, action_items, meeting_decisions, meeting_discussions,
            meeting_jargon, meeting_themes, action_ids>>

pvars == <<meeting_transcripts, tables, now, store_failures, runs, read_result, webhook>>

rvars == <<meetings, recall_sessions, bots, recordings, processings, edit_result>>

vars == <<nvars, xvars, pvars, rvars>>

(***************************************************************************)
(* Bounds.                                                                 *)
(***************************************************************************)
MaxFrags == 3             \* fragments of one session handed to the Normalizer
MaxRuns == 2              \* process_meeting_summary calls, possibly concurrent
MaxStored == 1            \* fragments delivered to the store
MaxClock == 1             \* ticks of the clock
MaxStoreFailures == 1     \* store operations that fail
MaxDeliveries == 3        \* webhook deliveries handled by the Ingestor on its own
MaxRecordings == 3        \* start-recording and stop-recording requests
MaxEdits == 2             \* requests to the edit routes, possibly concurrent

(***************************************************************************)
(* Fragments.  A stored row of meeting_transcripts carries transcript_data,*)
(* the raw payload.  A payload is a JSON object (kind "dict") or a JSON     *)
(* list of utterance entries (kind "list").  The fields of an object:      *)
(*   speaker          <<>> when the key is absent, else <<name>>           *)
(*   participant      <<>> when the key is absent, else <<name>>           *)
(*   words            the word list, empty when the key is absent or its   *)
(*                    value is no list                                     *)
(*   words_type       "list" when the key is absent or its value a list,   *)
(*                    "null" when the value is null, "str" when it is a    *)
(*                    string that is not empty                             *)
(*   start_timestamp  the payload-level relative offset, Absent if none    *)
(*   is_final         the payload-level flag (never read by the pipeline)  *)
(* and entries, the elements of a list payload, each with its own speaker, *)
(* text and timestamp.                                                     *)
(* and of a word:                                                          *)
(*   text, start_timestamp (relative offset or Absent),                    *)
(*   is_final ("True", "False", or "absent" when the key is missing)       *)
(***************************************************************************)
Absent == -1

Word(text, ts, fin) == [text |-> text, start_timestamp |-> ts, is_final |-> fin]

\* An object payload that also carries an explicit "speaker" key.
SpokenPayload(speaker, participant, words, ts, fin) ==
    [kind |-> "dict", speaker |-> speaker, participant |-> participant, words |-> words,
     words_type |-> "list", start_timestamp |-> ts, is_final |-> fin, entries |-> <<>>]

Payload(participant, words, ts, fin) == SpokenPayload(<<>>, participant, words, ts, fin)

\* An object payload whose "words" is no list: null or a string.
WordlessPayload(participant, words_type, ts, fin) ==
    [Payload(participant, <<>>, ts, fin) EXCEPT !.words_type = words_type]

Entry(speaker, text, timestamp) == [speaker |-> speaker, text |-> text, timestamp |-> timestamp]

\* A payload that is a flat list of utterance entries.
EntryList(entries) ==
    [kind |-> "list", speaker |-> <<>>, participant |-> <<>>, words |-> <<>>,
     words_type |-> "list", start_timestamp |-> Absent, is_final |-> FALSE,
     entries |-> entries]

\* The payloads the recording bot delivers in this model.
FragmentPool ==
    { Payload(<<"Alice">>, <<Word("Hi", 0, "True")>>, Absent, TRUE),
      Payload(<<"Bob">>, <<Word("Hello", 1, "True")>>, Absent, TRUE),
      Payload(<<"Alice">>, <<Word("Good", 0, "absent"), Word("morning", Absent, "absent")>>, 1, FALSE),
      Payload(<<"Bob">>, <<Word("there", 0, "False"), Word("you", 0, "True")>>, Absent, TRUE),
      Payload(<<>>, <<Word("um", 1, "False")>>, Absent, FALSE),
      Payload(<<"Alice">>, <<Word("all", 2, "False"), Word("well", 1, "absent")>>, 0, TRUE),
      Payload(<<"Bob">>, <<>>, 0, TRUE),
      WordlessPayload(<<"Bob">>, "null", 0, TRUE),
      SpokenPayload(<<"Carol">>, <<"Alice">>, <<Word("yes", 2, "True")>>, Absent, TRUE),
      EntryList(<<Entry("Dave", "ok", 3)>>) }

\* A row as the store returns it: the payload under "transcript_data"; rows of
\* meeting_transcripts have no is_final column (models.py).
Row(payload) == [transcript_data |-> payload]

(***************************************************************************)
(* _process_transcript_data, lines 137-182.                                 *)
(***************************************************************************)
\* lines 142-144: the speaker of a fragment.  On a list payload the test
\* 'participant' in transcript_data looks for the string among the entries and
\* finds none; the "speaker" key of an object is not read.
speaker_name(utterance) ==
    IF utterance.transcript_data.kind = "list" THEN <<>>
    ELSE utterance.transcript_data.participant

\* lines 149-154: one extracted word
ExtractWord(utterance, word) ==
    [text      |-> word.text,
     speaker   |-> speaker_name(utterance),
     timestamp |-> IF word.start_timestamp # Absent
                   THEN word.start_timestamp
                   ELSE IF utterance.transcript_data.start_timestamp # Absent
                        THEN utterance.transcript_data.start_timestamp
                        ELSE 0,
     \* utterance.get("is_final", False): the row has no such key
     is_final  |-> IF word.is_final # "absent" THEN word.is_final = "True" ELSE FALSE]

\* lines 146-154: the words of one fragment, in their order.  On a list payload
\* 'words' in transcript_data is false as well and the fragment gives no word;
\* nor does a fragment whose "words" fails isinstance(..., list).
ExtractWords(utterance) ==
    IF utterance.transcript_data.kind = "list" THEN <<>>
    ELSE IF utterance.transcript_data.words_type # "list" THEN <<>>
    ELSE [i \in 1..Len(utterance.transcript_data.words) |->
             ExtractWord(utterance, utterance.transcript_data.words[i])]

\* lines 139-154: all_words, fragments in the order given
RECURSIVE all_words(_)
all_words(rows) ==
    IF rows = <<>> THEN <<>>
    ELSE ExtractWords(Head(rows)) \o all_words(Tail(rows))

\* line 158: list.sort(key=timestamp) is stable: a word goes after every word
\* already placed whose timestamp is not greater.
RECURSIVE InsertByTimestamp(_, _)
InsertByTimestamp(sorted, w) ==
    IF sorted = <<>> THEN <<w>>
    ELSE IF sorted[Len(sorted)].timestamp <= w.timestamp
         THEN Append(sorted, w)
         ELSE Append(InsertByTimestamp(SubSeq(sorted, 1, Len(sorted) - 1), w),
                     sorted[Len(sorted)])

RECURSIVE SortFrom(_, _)
SortFrom(sorted, rest) ==
    IF rest = <<>> THEN sorted
    ELSE SortFrom(InsertByTimestamp(sorted, Head(rest)), Tail(rest))

\* the sort left out: words stay in arrival order
sort_by_timestamp_skipped(ws) == ws

\* an unstable sort: words of equal timestamp come out in reverse arrival order
sort_by_timestamp_ties_reversed(ws) ==
    LET reversed(seq) == [i \in 1..Len(seq) |-> seq[Len(seq) + 1 - i]] IN
    SortFrom(<<>>, reversed(ws))

sort_by_timestamp(ws) == SortFrom(<<>>, ws)

\* line 161
final_words(ws) == SelectSeq(ws, LAMBDA w : w.is_final = TRUE)

\* the filter left out: provisional words are kept beside final ones
words_to_process_unfiltered(ws) == ws

\* line 162
words_to_process(ws) == IF final_words(ws) # <<>> THEN final_words(ws) ELSE ws

\* lines 165-175: consecutive words of one speaker form one turn.  current_speaker
\* starts as None, so a first word whose speaker is None takes the else branch
\* and grouped_transcript[-1] raises IndexError on the empty list.
RECURSIVE GroupFrom(_, _, _)
GroupFrom(grouped, current_speaker, ws) ==
    IF ws = <<>> THEN [raised |-> "", turns |-> grouped]
    ELSE LET word == Head(ws) IN
         IF word.speaker # current_speaker
         THEN GroupFrom(Append(grouped, [speaker |-> word.speaker, words |-> <<word.text>>]),
                        word.speaker, Tail(ws))
         ELSE IF grouped = <<>>
              THEN [raised |-> "IndexError", turns |-> <<>>]
              ELSE GroupFrom([grouped EXCEPT ![Len(grouped)].words = Append(@, word.text)],
                             current_speaker, Tail(ws))

grouped_transcript(ws) == GroupFrom(<<>>, <<>>, ws)

\* str.join
RECURSIVE Join(_, _)
Join(sep, strs) ==
    IF strs = <<>> THEN ""
    ELSE IF Len(strs) = 1 THEN strs[1]
    ELSE strs[1] \o sep \o Join(sep, Tail(strs))

\* f"{item['speaker']}": None prints as "None"
FormatSpeaker(speaker) == IF speaker = <<>> THEN "None" ELSE speaker[1]

\* lines 178-181
FormatTurn(item) == FormatSpeaker(item.speaker) \o ": " \o Join(" ", item.words)

RenderTranscript(grouped) ==
    Join("\n", [i \in 1..Len(grouped) |-> FormatTurn(grouped[i])])

\* The call as a whole: the text returned, or the exception raised.
_process_transcript_data(rows) ==
    LET grouped == grouped_transcript(words_to_process(sort_by_timestamp(all_words(rows))))
    IN  IF grouped.raised # ""
        THEN [raised |-> grouped.raised, text |-> ""]
        ELSE [raised |-> "", text |-> RenderTranscript(grouped.turns)]

(***************************************************************************)
(* AISummarizationService.summarize_transcript, recallai_services lines    *)
(* 242-287: the second normalizer, up to the text it puts into its prompt. *)
(* It is handed the payloads themselves, not the rows.                     *)
(***************************************************************************)
\* line 252: utterance.get("participant", {}).get("name", "Unknown")
summarize_speaker_name(utterance) ==
    IF utterance.participant = <<>> THEN <<"Unknown">> ELSE utterance.participant

\* lines 256-261: the finality flag is the payload's, the timestamp the word's
SummarizeWord(utterance, word) ==
    [text      |-> word.text,
     speaker   |-> summarize_speaker_name(utterance),
     timestamp |-> IF word.start_timestamp # Absent THEN word.start_timestamp ELSE 0,
     is_final  |-> utterance.is_final]

\* lines 251-261: the words of the payloads in the order given, or the
\* exception of the first payload that raises one.  A list payload has no get()
\* (AttributeError); a "words" that is null cannot be iterated (TypeError); the
\* characters of a "words" that is a string have no get() (AttributeError).
RECURSIVE summarize_all_words(_)
summarize_all_words(payloads) ==
    IF payloads = <<>> THEN [raised |-> "", words |-> <<>>]
    ELSE LET utterance == Head(payloads) IN
         IF utterance.kind = "list" \/ utterance.words_type = "str"
         THEN [raised |-> "AttributeError", words |-> <<>>]
         ELSE IF utterance.words_type = "null"
         THEN [raised |-> "TypeError", words |-> <<>>]
         ELSE LET rest == summarize_all_words(Tail(payloads)) IN
              IF rest.raised # "" THEN rest
              ELSE [raised |-> "",
                    words  |-> [i \in 1..Len(utterance.words) |->
                                   SummarizeWord(utterance, utterance.words[i])]
                               \o rest.words]

\* lines 244-287 and 320-322.  An exception is turned by the except clause into
\* the returned string.  The grouping is the code of lines 270-281, equal to
\* lines 165-175 of the pipeline.
summarize_transcript(key, payloads) ==
    IF key = ""
    THEN [built |-> TRUE, raised |-> "Gemini API key not configured", text |-> ""]
    ELSE LET all == summarize_all_words(payloads) IN
         IF all.raised # ""
         THEN [built |-> TRUE, raised |-> all.raised, text |-> ""]
         ELSE LET grouped ==
                      GroupFrom(<<>>, <<>>, words_to_process(sort_by_timestamp(all.words)))
              IN  [built |-> TRUE, raised |-> grouped.raised,
                   text |-> RenderTranscript(grouped.turns)]

(***************************************************************************)
(* JSON values.  Every value is a record of one shape, so that values of   *)
(* different JSON types can be compared:                                   *)
(*   kind   "str", "num", "true", "false", "null", "list" or "dict"        *)
(*   str    the text of a string, the literal of a number                  *)
(*   items  the elements of a list, the values of a dict (by key position) *)
(*   keys   the keys of a dict, in insertion order                         *)
(***************************************************************************)
JStr(s) == [kind |-> "str", str |-> s, items |-> <<>>, keys |-> <<>>]
JNum(lit) == [kind |-> "num", str |-> lit, items |-> <<>>, keys |-> <<>>]
JLit(k) == [kind |-> k, str |-> "", items |-> <<>>, keys |-> <<>>]
JNull == JLit("null")
JList(items) == [kind |-> "list", str |-> "", items |-> items, keys |-> <<>>]
JDict(keys, vals) == [kind |-> "dict", str |-> "", items |-> vals, keys |-> keys]

IsDict(v) == v.kind = "dict"

\* type(v).__name__
PyTypeName(v) ==
    CASE v.kind = "str" -> "str"
      [] v.kind = "num" -> "int"
      [] v.kind = "list" -> "list"
      [] v.kind = "dict" -> "dict"
      [] v.kind = "null" -> "NoneType"
      [] OTHER -> "bool"

\* str(e) of the AttributeError of v.get
NoGetMessage(v) == "'" \o PyTypeName(v) \o "' object has no attribute 'get'"

\* str(e) of the TypeError of a for loop over v
NotIterableMessage(v) == "'" \o PyTypeName(v) \o "' object is not iterable"

HasKey(d, k) == \E i \in DOMAIN d.keys : d.keys[i] = k

\* d[k] for a key the dict has
Lookup(d, k) == d.items[CHOOSE i \in DOMAIN d.keys : d.keys[i] = k]

\* dict.get(k, default)
DictGet(d, k, default) == IF HasKey(d, k) THEN Lookup(d, k) ELSE default

\* d[k] = v: a repeated key keeps its first position and takes the last value
DictSet(d, k, v) ==
    IF HasKey(d, k)
    THEN [d EXCEPT !.items[CHOOSE i \in DOMAIN d.keys : d.keys[i] = k] = v]
    ELSE [d EXCEPT !.keys = Append(@, k), !.items = Append(@, v)]

(***************************************************************************)
(* json.loads on the alphabet of this model: whitespace, dicts, lists,     *)
(* strings without escape sequences, integers, true, false, null.          *)
(***************************************************************************)
CharAt(s, i) == IF i >= 1 /\ i <= Len(s) THEN SubSeq(s, i, i) ELSE ""

\* s[i-1 : j] of Python, clipped to the string
Slice(s, i, j) ==
    LET lo == IF i < 1 THEN 1 ELSE i
        hi == IF j > Len(s) THEN Len(s) ELSE j
    IN  IF lo > hi THEN "" ELSE SubSeq(s, lo, hi)

JsonWhitespace == {" ", "\t", "\n", "\r"}

Digits == {"0", "1", "2", "3", "4", "5", "6", "7", "8", "9"}

RECURSIVE SkipWs(_, _)
SkipWs(s, i) == IF CharAt(s, i) \in JsonWhitespace THEN SkipWs(s, i + 1) ELSE i

\* the index of the quote closing a string whose text starts at j; 0 if there is
\* none before a control character or the end
RECURSIVE StringEnd(_, _)
StringEnd(s, j) ==
    IF j > Len(s) THEN 0
    ELSE IF CharAt(s, j) = "\"" THEN j
    ELSE IF CharAt(s, j) \in {"\\", "\n", "\t", "\r"} THEN 0
    ELSE StringEnd(s, j + 1)

RECURSIVE DigitsEnd(_, _)
DigitsEnd(s, j) == IF CharAt(s, j) \in Digits THEN DigitsEnd(s, j + 1) ELSE j

ParseFail == [ok |-> FALSE, val |-> JNull, pos |-> 0]
ParseOk(v, p) == [ok |-> TRUE, val |-> v, pos |-> p]

\* -?(0|[1-9][0-9]*) at i
ParseNumber(s, i) ==
    LET d == IF CharAt(s, i) = "-" THEN i + 1 ELSE i
        e == IF CharAt(s, d) = "0" THEN d + 1 ELSE DigitsEnd(s, d)
    IN  IF e = d THEN ParseFail
        ELSE ParseOk(JNum(IF Slice(s, i, e - 1) = "-0" THEN "0" ELSE Slice(s, i, e - 1)), e)

RECURSIVE ParseValue(_, _)
RECURSIVE ParseElements(_, _, _)
RECURSIVE ParseMembers(_, _, _)

\* scan_once: the value that starts exactly at i
ParseValue(s, i) ==
    LET c == CharAt(s, i) IN
    CASE c = "\"" ->
            LET e == StringEnd(s, i + 1) IN
            IF e = 0 THEN ParseFail ELSE ParseOk(JStr(Slice(s, i + 1, e - 1)), e + 1)
      [] c = "{" ->
            LET j == SkipWs(s, i + 1) IN
            IF CharAt(s, j) = "}" THEN ParseOk(JDict(<<>>, <<>>), j + 1)
            ELSE ParseMembers(s, j, JDict(<<>>, <<>>))
      [] c = "[" ->
            LET j == SkipWs(s, i + 1) IN
            IF CharAt(s, j) = "]" THEN ParseOk(JList(<<>>), j + 1)
            ELSE ParseElements(s, j, <<>>)
      [] c = "n" -> IF Slice(s, i, i + 3) = "null" THEN ParseOk(JNull, i + 4) ELSE ParseFail
      [] c = "t" -> IF Slice(s, i, i + 3) = "true" THEN ParseOk(JLit("true"), i + 4) ELSE ParseFail
      [] c = "f" -> IF Slice(s, i, i + 4) = "false" THEN ParseOk(JLit("false"), i + 5) ELSE ParseFail
      [] c \in Digits \cup {"-"} -> ParseNumber(s, i)
      [] OTHER -> ParseFail

\* the elements of a list from i, after "[" or ","
ParseElements(s, i, acc) ==
    LET v == ParseValue(s, i) IN
    IF ~v.ok THEN ParseFail
    ELSE LET j == SkipWs(s, v.pos) IN
         IF CharAt(s, j) = "]" THEN ParseOk(JList(Append(acc, v.val)), j + 1)
         ELSE IF CharAt(s, j) = "," THEN ParseElements(s, SkipWs(s, j + 1), Append(acc, v.val))
         ELSE ParseFail

\* the members of a dict from i, after "{" or ","
ParseMembers(s, i, acc) ==
    IF CharAt(s, i) # "\"" THEN ParseFail
    ELSE LET e == StringEnd(s, i + 1) IN
         IF e = 0 THEN ParseFail
         ELSE LET key == Slice(s, i + 1, e - 1)
                  c == SkipWs(s, e + 1)
              IN  IF CharAt(s, c) # ":" THEN ParseFail
                  ELSE LET v == ParseValue(s, SkipWs(s, c + 1)) IN
                       IF ~v.ok THEN ParseFail
                       ELSE LET j == SkipWs(s, v.pos)
                                d == DictSet(acc, key, v.val)
                            IN  IF CharAt(s, j) = "}" THEN ParseOk(d, j + 1)
                                ELSE IF CharAt(s, j) = ","
                                     THEN ParseMembers(s, SkipWs(s, j + 1), d)
                                     ELSE ParseFail

\* JSONDecoder.decode(s): the value, or JSONDecodeError
JsonDecode(s) ==
    LET v == ParseValue(s, SkipWs(s, 1)) IN
    IF v.ok /\ SkipWs(s, v.pos) = Len(s) + 1
    THEN [raised |-> "", value |-> v.val]
    ELSE [raised |-> "JSONDecodeError", value |-> JNull]

\* json.dumps(v), default separators
RECURSIVE json_dumps(_)
json_dumps(v) ==
    CASE v.kind = "str" -> "\"" \o v.str \o "\""
      [] v.kind = "num" -> v.str
      [] v.kind = "list" ->
            "[" \o Join(", ", [i \in DOMAIN v.items |-> json_dumps(v.items[i])]) \o "]"
      [] v.kind = "dict" ->
            "{" \o Join(", ", [i \in DOMAIN v.keys |->
                        "\"" \o v.keys[i] \o "\": " \o json_dumps(v.items[i])]) \o "}"
      [] OTHER -> v.kind

\* str.strip()
RECURSIVE LStrip(_)
LStrip(s) == IF CharAt(s, 1) \in JsonWhitespace THEN LStrip(Slice(s, 2, Len(s))) ELSE s

RECURSIVE RStrip(_)
RStrip(s) == IF CharAt(s, Len(s)) \in JsonWhitespace THEN RStrip(Slice(s, 1, Len(s) - 1)) ELSE s

Strip(s) == RStrip(LStrip(s))

(***************************************************************************)
(* The external model.  What a call to generate_content does is an input:  *)
(*   "text"        a response object with a text attribute                 *)
(*   "candidates"  a response object without text, with candidates         *)
(*   "unexpected"  a response object with neither                          *)
(*   "raise"       the transport fails (timeout, connection error)         *)
(* The backtick, which a TLA+ string cannot hold, is written "~".          *)
(***************************************************************************)
Backtick == "~"

FenceOpen == Backtick \o Backtick \o Backtick \o "json"

FenceClose == Backtick \o Backtick \o Backtick

ModelOutcome(kind, text) == [kind |-> kind, text |-> text]

TransportFailure == ModelOutcome("raise", "")

(***************************************************************************)
(* Model responses and transcript texts used as inputs.                    *)
(***************************************************************************)
FullSummaryJson ==
    "{\"overview\": \"x\", \"action_items\": [{\"description\": \"d\", \"owner\": \"o\"}], "
    \o "\"key_decisions\": [{\"decision\": \"k\"}], \"key_takeaways\": [\"t\"], "
    \o "\"discussion_points\": [{\"topic\": \"p\", \"participants\": [\"Alice\"]}], "
    \o "\"jargon_clarifications\": [{\"term\": \"j\", \"clarification\": \"c\"}], "
    \o "\"themes\": [\"m\"], \"context_group\": \"team-sync\"}"

EmptyListsJson ==
    "{\"overview\": \"y\", \"action_items\": [], \"key_decisions\": [], \"key_takeaways\": [], "
    \o "\"discussion_points\": [], \"jargon_clarifications\": [], \"themes\": [], "
    \o "\"context_group\": \"general\"}"

\* an entry of action_items that is no object
MalformedItemJson ==
    "{\"overview\": \"z\", \"action_items\": [\"call Bob\"], \"key_decisions\": [], "
    \o "\"key_takeaways\": [], \"discussion_points\": [], \"jargon_clarifications\": [], "
    \o "\"themes\": [\"m\"], \"context_group\": \"sales-review\"}"

PartialJson == "{\"overview\": \"x\"}"

\* no action item, two themes
ThemesOnlyJson ==
    "{\"overview\": \"v\", \"action_items\": [], \"key_decisions\": [], \"key_takeaways\": [], "
    \o "\"discussion_points\": [], \"jargon_clarifications\": [], \"themes\": [\"m\", \"n\"], "
    \o "\"context_group\": \"general\"}"

\* one action item and nothing else
OneActionJson ==
    "{\"overview\": \"u\", \"action_items\": [{\"description\": \"d\"}], \"key_decisions\": [], "
    \o "\"key_takeaways\": [], \"discussion_points\": [], \"jargon_clarifications\": [], "
    \o "\"themes\": [], \"context_group\": \"general\"}"

\* lists of several entries, sub-fields missing
SeveralItemsJson ==
    "{\"overview\": \"w\", \"action_items\": [{\"description\": \"d\"}, {}], "
    \o "\"key_decisions\": [{\"decision\": \"k\"}, {\"impact\": \"i\"}], \"key_takeaways\": [], "
    \o "\"discussion_points\": [], \"jargon_clarifications\": [{\"term\": \"j\"}], "
    \o "\"themes\": [], \"context_group\": \"general\"}"

Fenced(json) == FenceOpen \o "\n" \o json \o "\n" \o FenceClose

\* responses that are no JSON document, fenced or not
NotJsonResponses ==
    { "not json", "", "Here is the summary: {}", "{\"overview\": \"x\"",
      "{'overview': 'x'}", FenceClose }

\* responses that are a JSON document but no object with the eight keys
NotSummaryResponses ==
    { "[]", "\"just text\"", "12", "null", "{}", PartialJson, Fenced(PartialJson) }

SummaryResponses ==
    { FullSummaryJson, Fenced(FullSummaryJson), "  " \o EmptyListsJson \o "\n",
      MalformedItemJson }

ResponsePool == NotJsonResponses \cup NotSummaryResponses \cup SummaryResponses

ExtractorOutcomes ==
    {ModelOutcome("text", r) : r \in ResponsePool}
      \cup {ModelOutcome("candidates", FullSummaryJson), ModelOutcome("candidates", "not json"),
            ModelOutcome("unexpected", ""), TransportFailure}

TextPool == {"", " ", " \n\t ", "Alice: Hi\nBob: Hello"}

ApiKeys == {"", "key"}

\* the fence left in place: only the whitespace around the response is removed
CleanResponse_fence_kept(response) == Strip(response)

\* lines 112-116, and the strip of line 119
CleanResponse(response) ==
    LET stripped == Strip(response)
        opened == IF Slice(stripped, 1, 7) = FenceOpen
                  THEN Slice(stripped, 8, Len(stripped)) ELSE stripped
        closed == IF Len(opened) >= 3 /\ Slice(opened, Len(opened) - 2, Len(opened)) = FenceClose
                  THEN Slice(opened, 1, Len(opened) - 3) ELSE opened
    IN  Strip(closed)

\* lines 126-135
Fallback ==
    JDict(<<"overview", "action_items", "key_decisions", "key_takeaways",
            "discussion_points", "jargon_clarifications", "themes", "context_group">>,
          <<JStr("Error processing transcript"), JList(<<>>), JList(<<>>), JList(<<>>),
            JList(<<>>), JList(<<>>), JList(<<>>), JStr("general")>>)

\* The documents of this model, each decoded once: the cleaned responses, and
\* the stored contents (json.dumps of what the Extractor can return).
DecodedValues(decoded) == {p.value : p \in {q \in decoded : q.raised = ""}}

DocumentsOf(cleaned) ==
    cleaned \cup {json_dumps(v) : v \in DecodedValues({JsonDecode(c) : c \in cleaned}) \cup {Fallback}}

KnownDocuments == DocumentsOf({CleanResponse(r) : r \in ResponsePool} \cup {OneActionJson})

Decoded == [d \in KnownDocuments |-> JsonDecode(d)]

Memoised(table, s) == IF s \in DOMAIN table THEN table[s] ELSE JsonDecode(s)

\* json.loads(s)
json_loads(s) == Memoised(Decoded, s)

(***************************************************************************)
(* _call_gemini_api, lines 20-50: the text returned or the exception       *)
(* raised (and re-raised, line 50), and whether the model was called.      *)
(***************************************************************************)
_call_gemini_api(key, outcome) ==
    IF key = ""
    THEN [raised |-> "Gemini API key not configured", text |-> "", called |-> FALSE]
    ELSE CASE outcome.kind = "raise" ->
                [raised |-> "timeout", text |-> "", called |-> TRUE]
           [] outcome.kind = "text" ->
                [raised |-> "", text |-> outcome.text, called |-> TRUE]
           [] outcome.kind = "candidates" ->
                [raised |-> "", text |-> outcome.text, called |-> TRUE]
           [] OTHER ->
                [raised |-> "Unexpected Gemini API response format", text |-> "",
                 called |-> TRUE]

(***************************************************************************)
(* _extract_structured_summary, lines 52-135.                              *)
(***************************************************************************)
\* the parse outside the try block: a JSONDecodeError reaches the caller
Unguarded(parsed, called) ==
    [raised |-> parsed.raised, value |-> parsed.value, called |-> called]

_extract_structured_summary_parse_unguarded(key, text, outcome) ==
    LET call == _call_gemini_api(key, outcome) IN
    IF call.raised # "" THEN [raised |-> "", value |-> Fallback, called |-> call.called]
    ELSE Unguarded(json_loads(CleanResponse(call.text)), call.called)

\* lines 119-135: the value parsed, or the fallback when the parse raised
ParsedOrFallback(parsed) == IF parsed.raised # "" THEN Fallback ELSE parsed.value

\* lines 108-135: the prompt carries transcript_text whatever it is; every
\* exception of the call or of the parse ends in the fallback structure.
_extract_structured_summary(key, text, outcome) ==
    LET call == _call_gemini_api(key, outcome) IN
    [raised |-> "",
     value  |-> IF call.raised # "" THEN Fallback
                ELSE ParsedOrFallback(json_loads(CleanResponse(call.text))),
     called |-> call.called]

NoExtraction == [raised |-> "", value |-> JNull, called |-> FALSE]

IdleExtractor ==
    /\ api_key = "key"
    /\ prompt_text = ""
    /\ model_outcome = TransportFailure
    /\ extraction = NoExtraction
    /\ extracted = FALSE

NoText == [raised |-> "", text |-> ""]

\* no summarize request was made: summarize_transcript has not been called on
\* payloads (built) and there is no response (status_code 0).  A request in
\* flight holds the bot id and the payloads it has read
NotBuilt == [pc |-> "idle", bot_id |-> "", payloads |-> <<>>, built |-> FALSE,
             raised |-> "", text |-> "", status_code |-> 0, detail |-> ""]

IdleNormalizer ==
    /\ transcripts = <<>>
    /\ transcript_text = NoText
    /\ normalized = FALSE
    /\ final_transcript = NotBuilt

(***************************************************************************)
(* The pipeline over the durable store.  Every row carries the run that    *)
(* wrote it (field run), which no code reads.                              *)
(***************************************************************************)
Runs == 1..MaxRuns

Meetings == {"m1", "m2"}

\* the bot ids the recording service has given out
Bots == {"b1", "b2"}

Users == {"u1"}

\* meeting ids and user ids a request may name; "m0" and "u0" do not exist
RequestedMeetings == Meetings \cup {"m0"}

RequestedUsers == Users \cup {"u0"}

\* the payloads delivered while the pipeline runs
PipelineFragments ==
    { Payload(<<"Alice">>, <<Word("Hi", 0, "True")>>, Absent, TRUE),
      Payload(<<>>, <<Word("um", 1, "False")>>, Absent, FALSE),
      Payload(<<"Bob">>, <<>>, 0, TRUE) }

\* what the external model does while the pipeline runs
PipelineOutcomes ==
    { ModelOutcome("text", FullSummaryJson), ModelOutcome("text", MalformedItemJson),
      ModelOutcome("text", PartialJson), ModelOutcome("text", "[]"), TransportFailure }

NoResult == [status |-> "", error |-> "", summary_id |-> 0]

IdleRun ==
    [pc |-> "idle", meeting_id |-> "", bot_id |-> "", user_id |-> "",
     transcript_text |-> "", structured_summary |-> JNull, created_at |-> 0,
     summary_id |-> 0, cursor |-> 0, utcnow |-> Absent, model_calls |-> 0,
     model_error |-> "", result |-> NoResult]

\* no get_meeting_summary call is in flight and none has returned
NoRead == [pc |-> "idle", status |-> "", meeting_id |-> "", summary_id |-> 0,
           content |-> JNull, action_items |-> <<>>, decisions |-> <<>>, discussions |-> <<>>]

\* another request moves the store: a response already returned is dropped, a
\* get_meeting_summary call in flight keeps what it has read
ReadMovesOn == IF read_result.pc \in {"idle", "done"} THEN NoRead ELSE read_result

\* a webhook request: the secret of the query string and the JSON envelope
\* {event, data: {bot: {id}, data: <payload>}}; data is <<>> when the payload is
\* missing or empty, bot_id is "" when the bot id is missing
WebhookRequest(secret, event, data, bot_id) ==
    [secret |-> secret, event |-> event, data |-> data, bot_id |-> bot_id]

NoRequest == WebhookRequest("", "", <<>>, "")

NoResponse == [status_code |-> 0, success |-> FALSE, detail |-> ""]

\* no delivery was made.  A delivery in flight holds its request and, once the
\* row is built, the reading of the clock the row carries; delivered counts the
\* deliveries answered
NoWebhook == [pc |-> "idle", delivered |-> 0, request |-> NoRequest, response |-> NoResponse,
              utcnow |-> Absent]

\* a row of meetings: the two columns the recording routes read and write
Meeting(bot_id, meeting_status) == [bot_id |-> bot_id, meeting_status |-> meeting_status]

Recordings == 1..MaxRecordings

\* a start-recording, stop-recording or sessions request: its position, its
\* arguments, the bot id it holds and the response it ended with
IdleRecording ==
    [pc |-> "idle", kind |-> "", meeting_id |-> "", user_id |-> "", bot_id |-> "",
     status_code |-> 0, detail |-> "", sessions |-> <<>>, utcnow |-> Absent]

\* an auto-process-meeting or process-structured-summary request around run r
IdleProcessing ==
    [pc |-> "idle", kind |-> "", meeting_id |-> "", bot_id |-> "", user_id |-> "",
     status_code |-> 0, detail |-> ""]

\* the requests to the edit routes
Edits == 1..MaxEdits

\* a request to an edit route: its position, what it has read and is about to
\* write, and the response it ended with
IdleEdit ==
    [pc |-> "idle", kind |-> "", status_code |-> 0, meeting_id |-> "", summary_id |-> 0,
     action_id |-> 0, has_content |-> FALSE, content |-> "", utcnow |-> Absent]

\* no request to an edit route has been made
NoEdit == [e \in Edits |-> IdleEdit]

\* no request is in flight
NoRequests ==
    /\ edit_result = NoEdit
    /\ recordings = [c \in Recordings |-> IdleRecording]
    /\ processings = [r \in Runs |-> IdleProcessing]

\* no request of the recording routes has been made
NoRecordingRequests ==
    /\ NoRequests
    /\ recall_sessions = <<>>
    /\ bots = 0

\* the meetings were created with their bot id (routers/meeting.py line 83),
\* m1 with b1 and m2 with b2; no recording was started through this service
MeetingsWithBots ==
    /\ meetings = [m \in Meetings |-> Meeting(IF m = "m1" THEN "b1" ELSE "b2", "scheduled")]
    /\ NoRecordingRequests

\* the meetings were created without a bot id
MeetingsWithoutBots ==
    /\ meetings = [m \in Meetings |-> Meeting("", "scheduled")]
    /\ NoRecordingRequests

EmptyStore ==
    /\ meeting_transcripts = <<>>
    /\ meeting_summaries = <<>>
    /\ action_items = <<>>
    /\ meeting_decisions = <<>>
    /\ meeting_discussions = <<>>
    /\ meeting_jargon = <<>>
    /\ meeting_themes = <<>>
    /\ action_ids = 0
    /\ now = 0
    /\ store_failures = 0

IdlePipeline ==
    /\ EmptyStore
    /\ runs = [r \in Runs |-> IdleRun]
    /\ read_result = NoRead
    /\ webhook = NoWebhook
    /\ MeetingsWithBots

\* a store operation may fail while the failure budget lasts
StoreMayFail == store_failures < MaxStoreFailures

\* the exception leaves the call: no dictionary is returned for an error
Finish_exception_escapes(r, status, error) ==
    [runs EXCEPT ![r].pc = "done",
                 ![r].result = IF status = "success"
                               THEN [status |-> status, error |-> error,
                                     summary_id |-> runs[r].summary_id]
                               ELSE NoResult]

\* the run ends: the dictionary it returns (lines 235-249)
Finish(r, status, error) ==
    [runs EXCEPT ![r].pc = "done",
                 ![r].result = [status |-> status, error |-> error,
                                summary_id |-> IF status = "success" THEN runs[r].summary_id ELSE 0]]

\* datetime.utcnow(): the clock has moved on since it was last read, or has not.
\* Every row is stamped with the reading made while it is built.
ClockReadings == {t \in {now, now + 1} : t <= MaxClock}

(***************************************************************************)
(* RecallAIService.save_transcript, lines 176-209: one row appended per    *)
(* call, the payload unmodified, stamped with the call's own reading of    *)
(* the clock (line 198).                                                   *)
(***************************************************************************)
\* the row replaces the session's rows instead of joining them
save_transcript_overwriting(bot_id, transcript_data, utcnow) ==
    meeting_transcripts' =
        Append(SelectSeq(meeting_transcripts, LAMBDA row : row.bot_id # bot_id),
               [bot_id |-> bot_id, transcript_data |-> transcript_data, created_at |-> utcnow])

save_transcript(bot_id, transcript_data, utcnow) ==
    meeting_transcripts' =
        Append(meeting_transcripts,
               [bot_id |-> bot_id, transcript_data |-> transcript_data, created_at |-> utcnow])

(***************************************************************************)
(* handle_transcription_webhook, routers/recall.py lines 209-269.  Every   *)
(* HTTPException raised inside the try block is caught by the handler's    *)
(* own "except Exception" and raised again with status 500.                *)
(***************************************************************************)
WebhookSecret == "s3cret"

\* line 265 and line 239
Acknowledged == [status_code |-> 200, success |-> TRUE, detail |-> ""]

\* line 269
Failed(error) ==
    [status_code |-> 500, success |-> FALSE, detail |-> "Failed to process webhook: " \o error]

\* every event takes the path of "transcript.data"
IsTranscriptEvent_any(event) == TRUE

\* line 238
IsTranscriptEvent(event) == event = "transcript.data"

\* the delivery ends with a response
Answered(response) ==
    [webhook EXCEPT !.pc = "done", !.delivered = @ + 1, !.response = response]

\* a step of a delivery that writes nothing
DeliveryReadsOnly ==
    UNCHANGED <<meeting_transcripts, tables, now, runs, read_result, nvars, xvars, rvars>>

\* lines 229-258: the secret, the event and the envelope are looked at, then the
\* session of the bot id is looked up.  One delivery is handled at a time; the
\* steps of other requests fall between its store operations.
handle_transcription_webhook(request, read_fails) ==
    LET begun == [webhook EXCEPT !.request = request, !.response = NoResponse,
                                 !.utcnow = Absent]
        respond(response) ==
            webhook' = [begun EXCEPT !.pc = "done", !.delivered = @ + 1,
                                     !.response = response]
        found == \E i \in DOMAIN recall_sessions : recall_sessions[i].bot_id = request.bot_id
    IN
    /\ webhook.pc \in {"idle", "done"}
    /\ IF request.secret # WebhookSecret
       THEN \* lines 231-232
            /\ respond(Failed("401: Unauthorized webhook"))
            /\ UNCHANGED store_failures
       ELSE IF ~IsTranscriptEvent(request.event)
       THEN \* lines 238-239
            /\ respond(Acknowledged)
            /\ UNCHANGED store_failures
       ELSE IF request.data = <<>> \/ request.bot_id = ""
       THEN \* lines 244-245
            /\ respond(Failed("400: Invalid webhook data"))
            /\ UNCHANGED store_failures
       ELSE IF read_fails
       THEN \* the session lookup of lines 248-251 raises
            /\ StoreMayFail
            /\ store_failures' = store_failures + 1
            /\ respond(Failed("store read failed"))
       ELSE \* lines 253-261: with the meeting id save_transcript builds the row
            \* at once, without it it looks the session up again
            /\ webhook' = [begun EXCEPT !.pc = IF found THEN "build" ELSE "lookup"]
            /\ UNCHANGED store_failures
    /\ DeliveryReadsOnly

\* RecallAIService.save_transcript, lines 182-193: no meeting id was handed
\* over and the session of the bot id is looked up once more
LookupSession(read_fails) ==
    /\ webhook.pc = "lookup"
    /\ IF read_fails
       THEN /\ StoreMayFail
            /\ store_failures' = store_failures + 1
            /\ webhook' = Answered(Failed("store read failed"))
       ELSE /\ UNCHANGED store_failures
            /\ webhook' = [webhook EXCEPT !.pc = "build"]
    /\ DeliveryReadsOnly

\* lines 195-199: transcript_entry is built, stamped with the reading of the
\* clock made now; the insert is sent afterwards
BuildTranscript(utcnow) ==
    /\ webhook.pc = "build"
    /\ webhook' = [webhook EXCEPT !.pc = "insert", !.utcnow = utcnow]
    /\ now' = utcnow
    /\ UNCHANGED <<meeting_transcripts, tables, store_failures, runs, read_result, nvars,
                   xvars, rvars>>

\* line 205 and routers/recall.py lines 261-269: the insert of the row built,
\* and the response
SaveTranscript(insert_fails) ==
    /\ webhook.pc = "insert"
    /\ IF insert_fails
       THEN /\ StoreMayFail
            /\ store_failures' = store_failures + 1
            /\ webhook' = Answered(Failed("store write failed"))
            /\ UNCHANGED meeting_transcripts
       ELSE /\ save_transcript(webhook.request.bot_id, webhook.request.data[1], webhook.utcnow)
            /\ webhook' = Answered(Acknowledged)
            /\ UNCHANGED store_failures
    /\ read_result' = ReadMovesOn
    /\ UNCHANGED <<tables, now, runs, nvars, xvars, rvars>>

\* a recording bot delivers a fragment of its session
Deliver ==
    /\ Len(meeting_transcripts) < MaxStored
    /\ \E b \in Bots, f \in PipelineFragments :
          handle_transcription_webhook(
              WebhookRequest(WebhookSecret, "transcript.data", <<f>>, b), FALSE)

(***************************************************************************)
(* process_meeting_summary, lines 184-249, one step per store or model     *)
(* operation.                                                              *)
(***************************************************************************)
\* a row put into rows already ordered by created_at, behind the rows that
\* are no later than it
RECURSIVE InsertByCreatedAt(_, _)
InsertByCreatedAt(ordered, row) ==
    IF ordered = <<>> THEN <<row>>
    ELSE IF Head(ordered).created_at <= row.created_at
         THEN <<Head(ordered)>> \o InsertByCreatedAt(Tail(ordered), row)
         ELSE <<row>> \o ordered

\* .order("created_at", desc=False): ascending, rows of equal created_at in
\* insertion order
RECURSIVE OrderFrom(_, _)
OrderFrom(ordered, rest) ==
    IF rest = <<>> THEN ordered
    ELSE OrderFrom(InsertByCreatedAt(ordered, Head(rest)), Tail(rest))

OrderByCreatedAt(rows) == OrderFrom(<<>>, rows)

\* lines 198-204: the session's rows, ordered by created_at
TranscriptsOf(bot_id) ==
    OrderByCreatedAt(SelectSeq(meeting_transcripts, LAMBDA row : row.bot_id = bot_id))

\* str(e) of an exception of the Normalizer
ExceptionMessage(raised) ==
    IF raised = "IndexError" THEN "list index out of range" ELSE raised

\* a caller with no request of its own takes the first run not yet begun
FreeRun(r) == \A q \in Runs : q < r => runs[q].pc # "idle"

\* lines 184-213: the call with its arguments; it reads the fragments of the
\* bot id it was handed and normalizes them
BeginRun(r, meeting_id, bot_id, user_id, read_fails) ==
    LET started == [runs EXCEPT ![r].meeting_id = meeting_id, ![r].bot_id = bot_id,
                                ![r].user_id = user_id]
        rows == TranscriptsOf(bot_id)
        text == _process_transcript_data(rows)
        ends(error) == [started EXCEPT ![r].pc = "done",
                            ![r].result = [status |-> "error", error |-> error, summary_id |-> 0]]
    IN  /\ runs[r].pc = "idle"
        /\ IF read_fails
           THEN /\ StoreMayFail
                /\ store_failures' = store_failures + 1
                /\ runs' = ends("store read failed")
           ELSE /\ UNCHANGED store_failures
                /\ runs' = IF rows = <<>> THEN ends("No transcript data available")
                           ELSE IF text.raised # "" THEN ends(ExceptionMessage(text.raised))
                           ELSE IF Strip(text.text) = ""
                                THEN ends("No meaningful transcript content found")
                           ELSE [started EXCEPT ![r].pc = "extract",
                                                ![r].transcript_text = text.text]
        /\ read_result' = ReadMovesOn
        /\ UNCHANGED <<meeting_transcripts, tables, now, nvars, xvars, webhook, rvars>>

\* lines 216-227: the Extractor, then summary_data; structured_summary.get
\* raises AttributeError when the parsed value is no dict
ExtractRun(r, outcome, utcnow) ==
    /\ runs[r].pc = "extract"
    /\ \E ex \in {_extract_structured_summary(api_key, runs[r].transcript_text, outcome)} :
        LET called == [runs EXCEPT ![r].model_calls = @ + (IF ex.called THEN 1 ELSE 0),
                                   ![r].model_error = _call_gemini_api(api_key, outcome).raised,
                                   ![r].structured_summary = ex.value]
        IN
        /\ runs' = IF ex.raised # ""
                   THEN [called EXCEPT ![r].pc = "done",
                            ![r].result = [status |-> "error", error |-> ex.raised,
                                           summary_id |-> 0]]
                   ELSE IF ~IsDict(ex.value)
                   THEN [called EXCEPT ![r].pc = "done",
                            ![r].result = [status |-> "error", error |-> NoGetMessage(ex.value),
                                           summary_id |-> 0]]
                   ELSE [called EXCEPT ![r].pc = "insert_summary", ![r].created_at = utcnow]
        /\ now' = IF ex.raised = "" /\ IsDict(ex.value) THEN utcnow ELSE now
        /\ read_result' = ReadMovesOn
        /\ UNCHANGED <<meeting_transcripts, tables, store_failures, nvars, xvars, webhook, rvars>>

\* lines 219-227
summary_data(r) ==
    [summary_id     |-> Len(meeting_summaries) + 1,
     meeting_id     |-> runs[r].meeting_id,
     bot_id         |-> runs[r].bot_id,
     summary_type   |-> "structured_summary",
     content        |-> json_dumps(runs[r].structured_summary),
     created_at     |-> runs[r].created_at,
     created_by     |-> runs[r].user_id,
     context_group  |-> DictGet(runs[r].structured_summary, "context_group", JStr("general")),
     run            |-> r]

\* line 230: the canonical row
InsertSummary(r, insert_fails) ==
    /\ runs[r].pc = "insert_summary"
    /\ IF insert_fails
       THEN /\ StoreMayFail
            /\ store_failures' = store_failures + 1
            /\ runs' = Finish(r, "error", "store write failed")
            /\ UNCHANGED meeting_summaries
       ELSE /\ meeting_summaries' = Append(meeting_summaries, summary_data(r))
            /\ runs' = [runs EXCEPT ![r].pc = "components", ![r].cursor = 1,
                                    ![r].summary_id = Len(meeting_summaries) + 1]
            /\ UNCHANGED store_failures
    /\ read_result' = ReadMovesOn
    /\ UNCHANGED <<meeting_transcripts, action_items, meeting_decisions, meeting_discussions,
                   meeting_jargon, meeting_themes, action_ids, now, nvars, xvars, webhook,
                   rvars>>

(***************************************************************************)
(* _save_summary_components, lines 251-316: the inserts in their order.    *)
(* Any exception ends the call (line 316 re-raises) and with it the run.   *)
(***************************************************************************)
\* the characters of a string, as a for loop sees them
Chars(str) == [i \in 1..Len(str) |-> JStr(CharAt(str, i))]

\* for x in v: the elements, or TypeError when v is not iterable
Iterate(v) ==
    CASE v.kind = "list" -> [raised |-> "", items |-> v.items]
      [] v.kind = "dict" -> [raised |-> "", items |-> [i \in DOMAIN v.keys |-> JStr(v.keys[i])]]
      [] v.kind = "str" -> [raised |-> "", items |-> Chars(v.str)]
      [] OTHER -> [raised |-> NotIterableMessage(v), items |-> <<>>]

InsertEntry(table, item) == [op |-> "insert", table |-> table, item |-> item, error |-> ""]

RaiseEntry(error) == [op |-> "raise", table |-> "", item |-> JNull, error |-> error]

ComponentKeys ==
    <<"action_items", "key_decisions", "discussion_points", "jargon_clarifications">>

ComponentTables ==
    <<"action_items", "meeting_decisions", "meeting_discussions", "meeting_jargon">>

\* the loop body run for the first entry only
PlanItems_first_only(table, items) ==
    IF items = <<>> THEN <<>> ELSE <<InsertEntry(table, Head(items))>>

\* one loop: an entry that is no dict has no .get (AttributeError)
RECURSIVE PlanItems(_, _)
PlanItems(table, items) ==
    IF items = <<>> THEN <<>>
    ELSE IF ~IsDict(Head(items)) THEN <<RaiseEntry(NoGetMessage(Head(items)))>>
    ELSE <<InsertEntry(table, Head(items))>> \o PlanItems(table, Tail(items))

Raises(plan) == plan # <<>> /\ plan[Len(plan)].op = "raise"

\* the four loops from the t-th on, then the themes row
RECURSIVE PlanFrom(_, _)
PlanFrom(summary, t) ==
    IF t > Len(ComponentKeys) THEN <<InsertEntry("meeting_themes", summary)>>
    ELSE LET it == Iterate(DictGet(summary, ComponentKeys[t], JList(<<>>)))
             loop == PlanItems(ComponentTables[t], it.items)
         IN  IF it.raised # "" THEN <<RaiseEntry(it.raised)>>
             ELSE IF Raises(loop) THEN loop
             ELSE loop \o PlanFrom(summary, t + 1)

\* what _save_summary_components does for a summary, step by step
ComponentPlan(summary) == PlanFrom(summary, 1)

\* models.py lines 106-109: the store gives every new row of action_items an
\* id of its own (default=uuid.uuid4), which no other row had or will have
NextActionId == action_ids + 1

\* lines 262-270; action_id and completed_at are the columns the store fills in
action_data(meeting_id, action_item, r, utcnow) ==
    [action_id   |-> NextActionId,
     completed_at |-> Absent,
     meeting_id  |-> meeting_id,
     description |-> DictGet(action_item, "description", JStr("")),
     owner       |-> DictGet(action_item, "owner", JStr("")),
     due_date    |-> DictGet(action_item, "due_date", JNull),
     priority    |-> DictGet(action_item, "priority", JStr("medium")),
     status      |-> DictGet(action_item, "status", JStr("pending")),
     created_at  |-> utcnow,
     run         |-> r]

\* lines 275-281
decision_data(meeting_id, decision, r, utcnow) ==
    [meeting_id |-> meeting_id,
     decision   |-> DictGet(decision, "decision", JStr("")),
     context    |-> DictGet(decision, "context", JStr("")),
     impact     |-> DictGet(decision, "impact", JStr("")),
     created_at |-> utcnow,
     run        |-> r]

\* lines 286-292
discussion_data(meeting_id, discussion, r, utcnow) ==
    [meeting_id   |-> meeting_id,
     topic        |-> DictGet(discussion, "topic", JStr("")),
     summary      |-> DictGet(discussion, "summary", JStr("")),
     participants |-> json_dumps(DictGet(discussion, "participants", JList(<<>>))),
     created_at   |-> utcnow,
     run          |-> r]

\* lines 297-302
jargon_data(meeting_id, jargon, r, utcnow) ==
    [meeting_id    |-> meeting_id,
     term          |-> DictGet(jargon, "term", JStr("")),
     clarification |-> DictGet(jargon, "clarification", JStr("")),
     created_at    |-> utcnow,
     run           |-> r]

\* lines 306-311
themes_data(meeting_id, structured_summary, r, utcnow) ==
    [meeting_id    |-> meeting_id,
     themes        |-> json_dumps(DictGet(structured_summary, "themes", JList(<<>>))),
     context_group |-> DictGet(structured_summary, "context_group", JStr("general")),
     created_at    |-> utcnow,
     run           |-> r]

\* the canonical row taken back when a component write fails
SummariesRolledBack(r) == SelectSeq(meeting_summaries, LAMBDA row : row.run # r)

\* lines 314-316, 243-249: the exception is printed, re-raised and turned into
\* the error result; nothing written so far is undone
SummariesAfterFailure(r) == meeting_summaries

\* the step _save_summary_components is at: the row to build and insert, or
\* the exception the loop raises there
ComponentEntry(r) == ComponentPlan(runs[r].structured_summary)[runs[r].cursor]

\* lines 262-270, 275-281, 286-292, 297-302 and 306-311: the next row is built,
\* stamped with the reading of the clock made now; the insert is sent afterwards
BuildComponent(r, utcnow) ==
    /\ runs[r].pc = "components"
    /\ runs[r].utcnow = Absent
    /\ \E e \in {ComponentEntry(r)} : e.op = "insert"
    /\ runs' = [runs EXCEPT ![r].utcnow = utcnow]
    /\ now' = utcnow
    /\ UNCHANGED <<meeting_transcripts, tables, store_failures, read_result, nvars, xvars,
                   webhook, rvars>>

\* the next operation of _save_summary_components: the insert of the row built,
\* which carries the stamp it was built with and may fail, or an exception of
\* the loop itself; the themes insert is the last one
SaveComponent(r, insert_fails) ==
    LET plan == ComponentPlan(runs[r].structured_summary)
        e == plan[runs[r].cursor]
        m == runs[r].meeting_id
        utcnow == runs[r].utcnow
        last == runs[r].cursor = Len(plan)
        inserted(table) == e.op = "insert" /\ e.table = table /\ ~insert_fails
        sent == [runs EXCEPT ![r].utcnow = Absent]
    IN  /\ runs[r].pc = "components"
        /\ e.op = "insert" => utcnow # Absent
        /\ insert_fails => (e.op = "insert" /\ StoreMayFail)
        /\ store_failures' = IF insert_fails THEN store_failures + 1 ELSE store_failures
        /\ action_items' = IF inserted("action_items")
                           THEN Append(action_items, action_data(m, e.item, r, utcnow))
                           ELSE action_items
        /\ action_ids' = IF inserted("action_items") THEN NextActionId ELSE action_ids
        /\ meeting_decisions' = IF inserted("meeting_decisions")
                                THEN Append(meeting_decisions, decision_data(m, e.item, r, utcnow))
                                ELSE meeting_decisions
        /\ meeting_discussions' = IF inserted("meeting_discussions")
                                  THEN Append(meeting_discussions, discussion_data(m, e.item, r, utcnow))
                                  ELSE meeting_discussions
        /\ meeting_jargon' = IF inserted("meeting_jargon")
                             THEN Append(meeting_jargon, jargon_data(m, e.item, r, utcnow))
                             ELSE meeting_jargon
        /\ meeting_themes' = IF inserted("meeting_themes")
                             THEN Append(meeting_themes, themes_data(m, e.item, r, utcnow))
                             ELSE meeting_themes
        /\ runs' = IF e.op = "raise" THEN Finish(r, "error", e.error)
                   ELSE IF insert_fails
                   THEN [Finish(r, "error", "store write failed") EXCEPT ![r].utcnow = Absent]
                   ELSE IF last THEN [Finish(r, "success", "") EXCEPT ![r].utcnow = Absent]
                   ELSE [sent EXCEPT ![r].cursor = @ + 1]
        /\ meeting_summaries' = IF e.op = "raise" \/ insert_fails
                                THEN SummariesAfterFailure(r) ELSE meeting_summaries
        /\ read_result' = ReadMovesOn
        /\ UNCHANGED <<meeting_transcripts, now, nvars, xvars, webhook, rvars>>

(***************************************************************************)
(* get_meeting_summary, lines 318-375.                                     *)
(***************************************************************************)
\* lines 326-329
SummariesOf(meeting_id) ==
    SelectSeq(meeting_summaries,
              LAMBDA row : row.meeting_id = meeting_id /\ row.summary_type = "structured_summary")

\* the row inserted last, whatever its created_at
LatestSummaries_last_inserted(meeting_id) ==
    LET rows == SelectSeq(meeting_summaries, LAMBDA row : row.meeting_id = meeting_id) IN
    IF rows = <<>> THEN {} ELSE {rows[Len(rows)]}

\* lines 330-331: order by created_at descending, limit 1; rows with the same
\* created_at come in no fixed order
LatestSummaries(meeting_id) ==
    LET rows == SummariesOf(meeting_id) IN
    {rows[i] : i \in {j \in DOMAIN rows : \A k \in DOMAIN rows : rows[k].created_at <= rows[j].created_at}}

OfMeeting(table, meeting_id) == SelectSeq(table, LAMBDA row : row.meeting_id = meeting_id)

\* the call ends without a summary
ReadEnded(status, meeting_id) ==
    [NoRead EXCEPT !.pc = "done", !.status = status, !.meeting_id = meeting_id]

\* lines 326-338: the first read, the latest structured_summary row, and its
\* content decoded; one call is followed at a time
get_meeting_summary(meeting_id, read_fails) ==
    /\ read_result.pc \in {"idle", "done"}
    /\ IF read_fails
       THEN /\ StoreMayFail
            /\ store_failures' = store_failures + 1
            /\ read_result' = ReadEnded("error", meeting_id)
       ELSE /\ UNCHANGED store_failures
            /\ IF SummariesOf(meeting_id) = <<>>
               THEN read_result' = ReadEnded("not_found", meeting_id)
               ELSE \E summary \in LatestSummaries(meeting_id) :
                    \E structured_summary \in {json_loads(summary.content)} :
                      read_result' =
                         IF structured_summary.raised # ""
                         THEN ReadEnded("error", meeting_id)
                         ELSE [NoRead EXCEPT !.pc = "action_items",
                                             !.meeting_id = summary.meeting_id,
                                             !.summary_id = summary.summary_id,
                                             !.content = structured_summary.value]
    /\ UNCHANGED <<meeting_transcripts, tables, now, runs, nvars, xvars, webhook, rvars>>

\* lines 341-371: the reads of action_items, meeting_decisions and
\* meeting_discussions, one after the other, each of the store as it is by then;
\* the response follows the last one
ReadComponents(read_fails) ==
    LET meeting_id == read_result.meeting_id IN
    /\ read_result.pc \in {"action_items", "decisions", "discussions"}
    /\ IF read_fails
       THEN /\ StoreMayFail
            /\ store_failures' = store_failures + 1
            /\ read_result' = ReadEnded("error", meeting_id)
       ELSE /\ UNCHANGED store_failures
            /\ read_result' =
                  CASE read_result.pc = "action_items" ->
                         [read_result EXCEPT !.pc = "decisions",
                              !.action_items = OfMeeting(action_items, meeting_id)]
                    [] read_result.pc = "decisions" ->
                         [read_result EXCEPT !.pc = "discussions",
                              !.decisions = OfMeeting(meeting_decisions, meeting_id)]
                    [] read_result.pc = "discussions" ->
                         [read_result EXCEPT !.pc = "done", !.status = "success",
                              !.discussions = OfMeeting(meeting_discussions, meeting_id)]
    /\ UNCHANGED <<meeting_transcripts, tables, now, runs, nvars, xvars, webhook, rvars>>

(***************************************************************************)
(* The edit routes: direct_update_summary (routers/summary.py lines        *)
(* 176-203), review_edit_request (lines 50-89) and the action item routes  *)
(* (routers/action_items.py lines 124-308).  Each request makes a read and *)
(* then its writes, one step per store operation, and the requests         *)
(* interleave.  The routes of summary.py have no try block: an             *)
(* HTTPException keeps its status, any other exception is status 500.      *)
(***************************************************************************)
\* the contents a direct update or an edit request sends
EditContents == {EmptyListsJson, ThemesOnlyJson}

\* requests are taken in the order of their slots
EditBegins(e) ==
    /\ edit_result[e].pc = "idle"
    /\ \A q \in Edits : q < e => edit_result[q].pc # "idle"

\* the request ends with a response
Edited(e, kind, status_code, meeting_id, summary_id, content) ==
    [edit_result EXCEPT ![e] = [pc |-> "done", kind |-> kind, status_code |-> status_code,
                                meeting_id |-> meeting_id, summary_id |-> summary_id,
                                action_id |-> 0, has_content |-> FALSE, content |-> content,
                                utcnow |-> Absent]]

\* the request goes on to its next store operation
EditMovesTo(e, kind, pc, meeting_id, summary_id, action_id, has_content, content) ==
    [edit_result EXCEPT ![e] = [pc |-> pc, kind |-> kind, status_code |-> 0,
                                meeting_id |-> meeting_id, summary_id |-> summary_id,
                                action_id |-> action_id, has_content |-> has_content,
                                content |-> content, utcnow |-> Absent]]

\* a store operation of request e raised: status 500
EditFailed(e) ==
    Edited(e, edit_result[e].kind, 500, edit_result[e].meeting_id, 0, "")

\* summary.py lines 187 and 73: the rows of the meeting, of every summary_type,
\* latest first, limit 1
LatestOfMeeting(meeting_id) ==
    LET rows == OfMeeting(meeting_summaries, meeting_id) IN
    {rows[i] : i \in {j \in DOMAIN rows : \A k \in DOMAIN rows : rows[k].created_at <= rows[j].created_at}}

\* a step of an edit route that writes none of the tables
EditReadsOnly ==
    /\ read_result' = ReadMovesOn
    /\ UNCHANGED <<meeting_transcripts, tables, now, runs, webhook, nvars, xvars,
                   meetings, recall_sessions, bots, recordings, processings>>

\* lines 187-196: the latest row is read, then the body is looked at
direct_update_summary(e, meeting_id, well_formed, new_content, read_fails) ==
    /\ EditBegins(e)
    /\ IF read_fails
       THEN /\ StoreMayFail
            /\ store_failures' = store_failures + 1
            /\ edit_result' = Edited(e, "direct", 500, meeting_id, 0, "")
       ELSE /\ UNCHANGED store_failures
            /\ IF OfMeeting(meeting_summaries, meeting_id) = <<>>
               THEN \* lines 188-189
                    edit_result' = Edited(e, "direct", 404, meeting_id, 0, "")
               ELSE IF ~well_formed
               THEN \* lines 193-196
                    edit_result' = Edited(e, "direct", 422, meeting_id, 0, "")
               ELSE \E summary \in LatestOfMeeting(meeting_id) :
                    edit_result' = EditMovesTo(e, "direct", "update", meeting_id,
                                               summary.summary_id, 0, TRUE, new_content)
    /\ EditReadsOnly

\* lines 198-201: update(...).eq("meeting_id", meeting_id), every row of the meeting
UpdatedRows(meeting_id, new_content, utcnow) ==
    [i \in DOMAIN meeting_summaries |->
        IF meeting_summaries[i].meeting_id = meeting_id
        THEN [meeting_summaries[i] EXCEPT !.content = new_content, !.created_at = utcnow]
        ELSE meeting_summaries[i]]

\* summary.py line 200 and action_items.py lines 156 and 222: the request
\* builds what it is about to write, stamped with the reading of the clock made
\* now; the write is sent afterwards
BuildWrite(e, utcnow) ==
    /\ edit_result[e].pc \in {"update", "insert_action", "update_action"}
    /\ edit_result[e].utcnow = Absent
    /\ edit_result' = [edit_result EXCEPT ![e].utcnow = utcnow]
    /\ now' = utcnow
    /\ UNCHANGED <<meeting_transcripts, tables, store_failures, runs, read_result, webhook,
                   nvars, xvars, meetings, recall_sessions, bots, recordings, processings>>

\* lines 198-203: the update, which carries the stamp it was built with, and
\* the response, which names the row read at line 187
UpdateSummaries(e, update_fails) ==
    LET meeting_id == edit_result[e].meeting_id
        utcnow == edit_result[e].utcnow
    IN
    /\ edit_result[e].pc = "update"
    /\ utcnow # Absent
    /\ IF update_fails
       THEN /\ StoreMayFail
            /\ store_failures' = store_failures + 1
            /\ edit_result' = EditFailed(e)
            /\ UNCHANGED meeting_summaries
       ELSE /\ UNCHANGED store_failures
            /\ meeting_summaries' = UpdatedRows(meeting_id, edit_result[e].content, utcnow)
            /\ edit_result' = Edited(e, "direct", 200, meeting_id, edit_result[e].summary_id,
                                     edit_result[e].content)
    /\ read_result' = ReadMovesOn
    /\ UNCHANGED <<meeting_transcripts, action_items, meeting_decisions, meeting_discussions,
                   meeting_jargon, meeting_themes, action_ids, now, runs, webhook, nvars, xvars,
                   meetings, recall_sessions, bots, recordings, processings>>

\* review_edit_request, lines 57-69: the edit request is read (found: it
\* exists, for meeting_id, proposing content when has_content), the reviewer is
\* checked against the meeting (allowed) and the edit request is marked.  The
\* tables summary_edit_requests and project_members are not kept here.  An edit
\* request for a meeting that does not exist ends is_host_or_admin with an
\* IndexError (line 19).
review_edit_request(e, meeting_id, found, allowed, approve, has_content, content, store_fails) ==
    /\ EditBegins(e)
    /\ ~has_content => content = ""
    /\ IF store_fails
       THEN /\ StoreMayFail
            /\ store_failures' = store_failures + 1
            /\ edit_result' = Edited(e, "review", 500, meeting_id, 0, "")
       ELSE /\ UNCHANGED store_failures
            /\ edit_result' =
                  IF ~found THEN Edited(e, "review", 404, "", 0, "")
                  ELSE IF meeting_id \notin DOMAIN meetings
                  THEN Edited(e, "review", 500, meeting_id, 0, "")
                  ELSE IF ~allowed THEN Edited(e, "review", 403, meeting_id, 0, "")
                  ELSE IF ~approve THEN Edited(e, "review", 200, meeting_id, 0, "")
                  ELSE EditMovesTo(e, "review", "review_read", meeting_id, 0, 0,
                                   has_content, content)
    /\ EditReadsOnly

\* lines 72-74: the request was approved; the latest row of the meeting is read.
\* changes.get("content", summary[0]["content"]): without a content the row's own
\* content is written back
ReadLatest(e, read_fails) ==
    LET meeting_id == edit_result[e].meeting_id IN
    /\ edit_result[e].pc = "review_read"
    /\ IF read_fails
       THEN /\ StoreMayFail
            /\ store_failures' = store_failures + 1
            /\ edit_result' = EditFailed(e)
       ELSE /\ UNCHANGED store_failures
            /\ IF OfMeeting(meeting_summaries, meeting_id) = <<>>
               THEN edit_result' = [edit_result EXCEPT ![e].pc = "review_log"]
               ELSE \E summary \in LatestOfMeeting(meeting_id) :
                    edit_result' =
                        EditMovesTo(e, "review", "review_update", meeting_id,
                                    summary.summary_id, 0, TRUE,
                                    IF edit_result[e].has_content THEN edit_result[e].content
                                    ELSE summary.content)
    /\ EditReadsOnly

\* lines 76-79: update(...).eq("summary_id", summary_id): the content of the row
\* read, and updated_at, which is not kept here; created_at stays
ReviewedRows(summary_id, new_content) ==
    [i \in DOMAIN meeting_summaries |->
        IF meeting_summaries[i].summary_id = summary_id
        THEN [meeting_summaries[i] EXCEPT !.content = new_content]
        ELSE meeting_summaries[i]]

UpdateReviewed(e, update_fails) ==
    /\ edit_result[e].pc = "review_update"
    /\ IF update_fails
       THEN /\ StoreMayFail
            /\ store_failures' = store_failures + 1
            /\ edit_result' = EditFailed(e)
            /\ UNCHANGED meeting_summaries
       ELSE /\ UNCHANGED store_failures
            /\ meeting_summaries' = ReviewedRows(edit_result[e].summary_id, edit_result[e].content)
            /\ edit_result' = [edit_result EXCEPT ![e].pc = "review_log"]
    /\ read_result' = ReadMovesOn
    /\ UNCHANGED <<meeting_transcripts, action_items, meeting_decisions, meeting_discussions,
                   meeting_jargon, meeting_themes, action_ids, now, runs, webhook, nvars, xvars,
                   meetings, recall_sessions, bots, recordings, processings>>

\* lines 80-89: the revision is logged (summary_revision_history is not kept
\* here) and the request answered
LogRevision(e, insert_fails) ==
    /\ edit_result[e].pc = "review_log"
    /\ IF insert_fails
       THEN /\ StoreMayFail
            /\ store_failures' = store_failures + 1
            /\ edit_result' = EditFailed(e)
       ELSE /\ UNCHANGED store_failures
            /\ edit_result' = Edited(e, "review", 200, edit_result[e].meeting_id,
                                     edit_result[e].summary_id, edit_result[e].content)
    /\ EditReadsOnly

(***************************************************************************)
(* The action item routes, routers/action_items.py lines 124-308: each     *)
(* verifies what it is about with a read, then writes.                     *)
(***************************************************************************)
\* the action ids a request may name: those the store has given out, whether
\* their rows are still stored or not, and 0, which is none
RequestedActions == 0..action_ids

\* the request ends with a response
ActionEdited(e, status_code) ==
    [edit_result EXCEPT ![e].pc = "done", ![e].status_code = status_code,
                        ![e].utcnow = Absent]

\* the request after its first read: on its way to its write, or ended (pc "done")
ActionRequest(kind, pc, status_code, meeting_id, action_id) ==
    [pc |-> pc, kind |-> kind, status_code |-> status_code, meeting_id |-> meeting_id,
     summary_id |-> 0, action_id |-> action_id, has_content |-> FALSE, content |-> "",
     utcnow |-> Absent]

\* the first read of a route: nothing is written
VerifyAction(e, request, read_fails) ==
    /\ EditBegins(e)
    /\ IF read_fails
       THEN /\ StoreMayFail
            /\ store_failures' = store_failures + 1
            /\ edit_result' = [edit_result EXCEPT ![e] = [request EXCEPT !.pc = "done",
                                                                         !.status_code = 500]]
       ELSE /\ UNCHANGED store_failures
            /\ edit_result' = [edit_result EXCEPT ![e] = request]
    /\ EditReadsOnly

\* create_action_item, lines 137-146: the meeting is looked up; the
\* HTTPException keeps its status (lines 170-171)
create_action_item(e, meeting_id, read_fails) ==
    VerifyAction(e, IF meeting_id \in DOMAIN meetings
                    THEN ActionRequest("create", "insert_action", 0, meeting_id, 0)
                    ELSE ActionRequest("create", "done", 404, meeting_id, 0), read_fails)

\* update_action_item, lines 190-225: the action item is looked up, then the
\* body: without a field to update the request ends (400); the 404 and the 400
\* leave as status 500 (lines 240-242)
update_action_item(e, action_id, has_fields, read_fails) ==
    VerifyAction(e, IF (\E i \in DOMAIN action_items : action_items[i].action_id = action_id)
                       /\ has_fields
                    THEN ActionRequest("update", "update_action", 0, "", action_id)
                    ELSE ActionRequest("update", "done", 500, "", action_id), read_fails)

\* delete_action_item, lines 286-293: the action item is looked up; the 404
\* leaves as status 500 (lines 303-305)
delete_action_item(e, action_id, read_fails) ==
    VerifyAction(e, IF \E i \in DOMAIN action_items : action_items[i].action_id = action_id
                    THEN ActionRequest("delete", "delete_action", 0, "", action_id)
                    ELSE ActionRequest("delete", "done", 500, "", action_id), read_fails)

\* lines 149-157: the row a request creates; run 0 is no run of the pipeline
created_action_data(meeting_id, utcnow) ==
    [action_id    |-> NextActionId,
     completed_at |-> Absent,
     meeting_id   |-> meeting_id,
     description  |-> JStr("manual"),
     owner        |-> JStr("o"),
     due_date     |-> JNull,
     priority     |-> JStr("medium"),
     status       |-> JStr("pending"),
     created_at   |-> utcnow,
     run          |-> 0]

\* lines 202-224 and 227-230: the request sets description "edited" and status
\* "completed", and with it completed_at
UpdatedActionItems(action_id, utcnow) ==
    [i \in DOMAIN action_items |->
        IF action_items[i].action_id = action_id
        THEN [action_items[i] EXCEPT !.description = JStr("edited"),
                                     !.status = JStr("completed"),
                                     !.completed_at = utcnow]
        ELSE action_items[i]]

\* the write of request e, which carries the stamp it was built with: the
\* insert of lines 161-168, the update of lines 227-236, which answers 500 when
\* it matched no row (lines 235-236), or the delete of lines 296-301, which
\* carries no stamp and answers success whatever it removed
WriteActionItem(e, write_fails) ==
    LET action_id == edit_result[e].action_id
        pc == edit_result[e].pc
        utcnow == edit_result[e].utcnow
        stored == \E i \in DOMAIN action_items : action_items[i].action_id = action_id
    IN
    /\ pc \in {"insert_action", "update_action", "delete_action"}
    /\ pc # "delete_action" => utcnow # Absent
    /\ IF write_fails
       THEN /\ StoreMayFail
            /\ store_failures' = store_failures + 1
            /\ edit_result' = ActionEdited(e, 500)
            /\ UNCHANGED <<action_items, action_ids>>
       ELSE /\ UNCHANGED store_failures
            /\ edit_result' = ActionEdited(e, IF pc = "update_action" /\ ~stored THEN 500
                                              ELSE 200)
            /\ action_items' =
                  CASE pc = "insert_action" ->
                         Append(action_items,
                                created_action_data(edit_result[e].meeting_id, utcnow))
                    [] pc = "update_action" ->
                         UpdatedActionItems(action_id, utcnow)
                    [] pc = "delete_action" ->
                         SelectSeq(action_items, LAMBDA row : row.action_id # action_id)
            /\ action_ids' = IF pc = "insert_action" THEN NextActionId ELSE action_ids
    /\ read_result' = ReadMovesOn
    /\ UNCHANGED <<meeting_transcripts, meeting_summaries, meeting_decisions,
                   meeting_discussions, meeting_jargon, meeting_themes, now, runs, webhook,
                   nvars, xvars, meetings, recall_sessions, bots, recordings, processings>>

(***************************************************************************)
(* The recording routes, routers/recall.py lines 14-150, over              *)
(* RecallAIService.start_recording and stop_recording (recallai_services   *)
(* lines 68-142): one step per store operation or call of the recording    *)
(* service.  Every exception, the HTTPExceptions of the guards included,   *)
(* leaves the route as status 500.                                         *)
(***************************************************************************)
\* the ids the recording service gives the bots it creates, in order
BotIds == <<"b1", "b2", "b3">>

\* the request ends with a response
Respond(c, status_code, detail) ==
    [recordings EXCEPT ![c].pc = "done", ![c].status_code = status_code, ![c].detail = detail,
                       ![c].utcnow = Absent]

\* lines 101-102 and 149-150
StartFailed(c, error) == Respond(c, 500, "Failed to start recording: " \o error)

StopFailed(c, error) == Respond(c, 500, "Failed to stop recording: " \o error)

\* routers/recall.py lines 40-71: the meeting and the user are looked up; the
\* sessions the meeting already has are not
StartRecording(c, meeting_id, user_id) ==
    /\ recordings[c].pc = "idle"
    /\ \A q \in Recordings : q < c => recordings[q].pc # "idle"
    /\ LET started == [recordings EXCEPT ![c].kind = "start", ![c].meeting_id = meeting_id,
                                         ![c].user_id = user_id] IN
       recordings' =
          IF meeting_id \notin DOMAIN meetings
          THEN [started EXCEPT ![c].pc = "done", ![c].status_code = 500,
                               ![c].detail = "Failed to start recording: 404: Meeting not found"]
          ELSE IF user_id \notin Users
          THEN [started EXCEPT ![c].pc = "done", ![c].status_code = 500,
                               ![c].detail = "Failed to start recording: 404: User not found"]
          ELSE [started EXCEPT ![c].pc = "create_bot"]
    /\ UNCHANGED <<meetings, recall_sessions, bots, processings, edit_result, nvars, xvars, pvars>>

\* recallai_services lines 97-100: the recording service creates a bot, or
\* answers with an error status
CreateBot(c, service_fails) ==
    /\ recordings[c].pc = "create_bot"
    /\ IF service_fails
       THEN /\ recordings' = StartFailed(c, "Recall API Error: 500")
            /\ UNCHANGED bots
       ELSE /\ bots < Len(BotIds)
            /\ bots' = bots + 1
            /\ recordings' = [recordings EXCEPT ![c].pc = "insert_session",
                                                ![c].bot_id = BotIds[bots + 1]]
    /\ UNCHANGED <<meetings, recall_sessions, processings, edit_result, nvars, xvars, pvars>>

\* recallai_services lines 104-110
session_data(c, utcnow) ==
    [meeting_id |-> recordings[c].meeting_id,
     user_id    |-> recordings[c].user_id,
     bot_id     |-> recordings[c].bot_id,
     status     |-> "active",
     created_at |-> utcnow,
     ended_at   |-> Absent]

\* recallai_services lines 104-110 and line 134: the request builds what it is
\* about to write, the session row or the update that stops the sessions,
\* stamped with the reading of the clock made now; the write is sent afterwards
BuildSessionWrite(c, utcnow) ==
    /\ recordings[c].pc \in {"insert_session", "mark_stopped"}
    /\ recordings[c].utcnow = Absent
    /\ recordings' = [recordings EXCEPT ![c].utcnow = utcnow]
    /\ now' = utcnow
    /\ UNCHANGED <<meetings, recall_sessions, bots, processings, edit_result, nvars, xvars,
                   meeting_transcripts, tables, store_failures, runs, read_result, webhook>>

\* recallai_services line 113: the insert of the row built
InsertSession(c, insert_fails) ==
    /\ recordings[c].pc = "insert_session"
    /\ recordings[c].utcnow # Absent
    /\ IF insert_fails
       THEN /\ StoreMayFail
            /\ store_failures' = store_failures + 1
            /\ recordings' = StartFailed(c, "store write failed")
            /\ UNCHANGED recall_sessions
       ELSE /\ recall_sessions' = Append(recall_sessions,
                                         session_data(c, recordings[c].utcnow))
            /\ recordings' = [recordings EXCEPT ![c].pc = "update_meeting",
                                                ![c].utcnow = Absent]
            /\ UNCHANGED store_failures
    /\ UNCHANGED <<meetings, bots, processings, edit_result, nvars, xvars, meeting_transcripts, tables,
                   now, runs, read_result, webhook>>

\* routers/recall.py lines 81-97: the meeting takes the bot id of this request
UpdateMeetingBot(c, update_fails) ==
    /\ recordings[c].pc = "update_meeting"
    /\ IF update_fails
       THEN /\ StoreMayFail
            /\ store_failures' = store_failures + 1
            /\ recordings' = StartFailed(c, "store write failed")
            /\ UNCHANGED meetings
       ELSE /\ meetings' = [meetings EXCEPT ![recordings[c].meeting_id].bot_id =
                                                recordings[c].bot_id]
            /\ recordings' = Respond(c, 200, "started")
            /\ UNCHANGED store_failures
    /\ UNCHANGED <<recall_sessions, bots, processings, edit_result, nvars, xvars, meeting_transcripts,
                   tables, now, runs, read_result, webhook>>

\* routers/recall.py lines 123-136: the meeting's bot id is read
StopRecording(c, meeting_id) ==
    /\ recordings[c].pc = "idle"
    /\ \A q \in Recordings : q < c => recordings[q].pc # "idle"
    /\ LET started == [recordings EXCEPT ![c].kind = "stop", ![c].meeting_id = meeting_id] IN
       recordings' =
          IF meeting_id \notin DOMAIN meetings
          THEN [started EXCEPT ![c].pc = "done", ![c].status_code = 500,
                               ![c].detail = "Failed to stop recording: 404: Meeting not found"]
          ELSE IF meetings[meeting_id].bot_id = ""
          THEN [started EXCEPT ![c].pc = "done", ![c].status_code = 500,
                               ![c].detail =
                                   "Failed to stop recording: 400: No bot ID found for this meeting"]
          ELSE [started EXCEPT ![c].pc = "verify_session",
                               ![c].bot_id = meetings[meeting_id].bot_id]
    /\ UNCHANGED <<meetings, recall_sessions, bots, processings, edit_result, nvars, xvars, pvars>>

\* routers/recall.py lines 138-145
VerifySession(c) ==
    /\ recordings[c].pc = "verify_session"
    /\ recordings' =
          IF SelectSeq(recall_sessions, LAMBDA row : row.bot_id = recordings[c].bot_id) = <<>>
          THEN StopFailed(c, "404: Recording session not found")
          ELSE [recordings EXCEPT ![c].pc = "leave_call"]
    /\ UNCHANGED <<meetings, recall_sessions, bots, processings, edit_result, nvars, xvars, pvars>>

\* recallai_services lines 127-129: the bot is told to leave the call
LeaveCall(c, service_fails) ==
    /\ recordings[c].pc = "leave_call"
    /\ recordings' = IF service_fails THEN StopFailed(c, "Recall API Error: 500")
                     ELSE [recordings EXCEPT ![c].pc = "mark_stopped"]
    /\ UNCHANGED <<meetings, recall_sessions, bots, processings, edit_result, nvars, xvars, pvars>>

\* recallai_services lines 132-138: every session row of the bot id is stopped
\* and takes the stamp the update was built with as its ended_at
MarkStopped(c, update_fails) ==
    /\ recordings[c].pc = "mark_stopped"
    /\ recordings[c].utcnow # Absent
    /\ IF update_fails
       THEN /\ StoreMayFail
            /\ store_failures' = store_failures + 1
            /\ recordings' = StopFailed(c, "store write failed")
            /\ UNCHANGED recall_sessions
       ELSE /\ recall_sessions' =
                   [i \in DOMAIN recall_sessions |->
                       IF recall_sessions[i].bot_id = recordings[c].bot_id
                       THEN [recall_sessions[i] EXCEPT !.status = "stopped",
                                                       !.ended_at = recordings[c].utcnow]
                       ELSE recall_sessions[i]]
            /\ recordings' = Respond(c, 200, "stopped")
            /\ UNCHANGED store_failures
    /\ UNCHANGED <<meetings, bots, processings, edit_result, nvars, xvars, meeting_transcripts, tables,
                   now, runs, read_result, webhook>>

\* generate_meeting_link_with_recording, routers/zoom.py lines 412-497.  Line
\* 446 calls the route function generate_meeting_link(meeting_id, user_id,
\* supabase) directly; its parameters are (user_id, date, time, title,
\* duration, supabase), so the store client is bound to time and supabase keeps
\* its default, the Depends(get_supabase) marker.  Line 316 hands that marker
\* to get_valid_zoom_token, whose first statement (line 31) calls .table on it
\* and raises AttributeError.  The exception leaves the route as status 500
\* (lines 495-497) before the meeting is read: no bot is created, no session
\* inserted and no meeting updated.
generate_meeting_link_with_recording(c, meeting_id, user_id) ==
    /\ recordings[c].pc = "idle"
    /\ \A q \in Recordings : q < c => recordings[q].pc # "idle"
    /\ recordings' =
          [recordings EXCEPT
              ![c].kind = "link", ![c].meeting_id = meeting_id, ![c].user_id = user_id,
              ![c].pc = "done", ![c].status_code = 500,
              ![c].detail = "Failed to generate meeting link with recording: "
                               \o "'Depends' object has no attribute 'table'"]
    /\ UNCHANGED <<meetings, recall_sessions, bots, processings, edit_result, nvars, xvars, pvars>>

\* a row put into rows already ordered latest first, behind the rows that are
\* no earlier than it
RECURSIVE InsertLatestFirst(_, _)
InsertLatestFirst(ordered, row) ==
    IF ordered = <<>> THEN <<row>>
    ELSE IF Head(ordered).created_at >= row.created_at
         THEN <<Head(ordered)>> \o InsertLatestFirst(Tail(ordered), row)
         ELSE <<row>> \o ordered

\* .order("created_at", desc=True): descending, rows of equal created_at in
\* insertion order
RECURSIVE LatestFirstFrom(_, _)
LatestFirstFrom(ordered, rest) ==
    IF rest = <<>> THEN ordered
    ELSE LatestFirstFrom(InsertLatestFirst(ordered, Head(rest)), Tail(rest))

\* routers/recall.py lines 375-379: the sessions of a meeting, latest first
SessionsOf(meeting_id) ==
    LatestFirstFrom(<<>>, SelectSeq(recall_sessions, LAMBDA row : row.meeting_id = meeting_id))

\* get_meeting_sessions, routers/recall.py lines 365-372: the meeting is looked up
get_meeting_sessions(c, meeting_id) ==
    /\ recordings[c].pc = "idle"
    /\ \A q \in Recordings : q < c => recordings[q].pc # "idle"
    /\ LET started == [recordings EXCEPT ![c].kind = "sessions", ![c].meeting_id = meeting_id] IN
       recordings' =
          IF meeting_id \notin DOMAIN meetings
          THEN [started EXCEPT ![c].pc = "done", ![c].status_code = 500,
                               ![c].detail = "Failed to get sessions: 404: Meeting not found"]
          ELSE [started EXCEPT ![c].pc = "read_sessions"]
    /\ UNCHANGED <<meetings, recall_sessions, bots, processings, edit_result, nvars, xvars, pvars>>

\* routers/recall.py lines 374-385: the sessions of the meeting are read and
\* returned, latest first
ReadSessions(c, read_fails) ==
    /\ recordings[c].pc = "read_sessions"
    /\ IF read_fails
       THEN /\ StoreMayFail
            /\ store_failures' = store_failures + 1
            /\ recordings' = Respond(c, 500, "Failed to get sessions: store read failed")
       ELSE /\ UNCHANGED store_failures
            /\ recordings' = [recordings EXCEPT
                                 ![c].pc = "done", ![c].status_code = 200,
                                 ![c].sessions = SessionsOf(recordings[c].meeting_id)]
    /\ UNCHANGED <<meetings, recall_sessions, bots, processings, edit_result, nvars, xvars,
                   meeting_transcripts, tables, now, runs, read_result, webhook>>

(***************************************************************************)
(* auto_process_meeting (routers/recall.py lines 567-655),                 *)
(* process_structured_summary (lines 386-467) and                          *)
(* start_meeting_with_ai_processing (routers/zoom.py lines 499-594): the   *)
(* requests around a run of process_meeting_summary.  Request r owns run   *)
(* r.  Every exception leaves the route as status 500.                     *)
(***************************************************************************)
\* the request ends with a response
ProcessingDone(r, status_code, detail) ==
    [processings EXCEPT ![r].pc = "done", ![r].status_code = status_code, ![r].detail = detail]

\* lines 594-607: the meeting is read and with it its bot id
AutoProcess(r, meeting_id, user_id) ==
    LET started == [processings EXCEPT ![r].kind = "auto", ![r].meeting_id = meeting_id,
                                       ![r].user_id = user_id]
        fails(error) == [started EXCEPT ![r].pc = "done", ![r].status_code = 500,
                             ![r].detail = "Failed to auto-process meeting: " \o error]
    IN
    /\ processings[r].pc = "idle"
    /\ \A q \in Runs : q < r => processings[q].pc # "idle"
    /\ processings' =
          IF meeting_id \notin DOMAIN meetings THEN fails("404: Meeting not found")
          ELSE IF meetings[meeting_id].bot_id = ""
               THEN fails("400: No bot ID found for this meeting")
          ELSE [started EXCEPT ![r].pc = "mark_processing",
                               ![r].bot_id = meetings[meeting_id].bot_id]
    /\ UNCHANGED <<meetings, recall_sessions, bots, recordings, edit_result, nvars, xvars, pvars>>

\* lines 609-613: the meeting is marked "processing"
MarkProcessing(r, update_fails) ==
    /\ processings[r].pc = "mark_processing"
    /\ IF update_fails
       THEN /\ StoreMayFail
            /\ store_failures' = store_failures + 1
            /\ processings' = ProcessingDone(r, 500, "Failed to auto-process meeting: "
                                                         \o "store write failed")
            /\ UNCHANGED meetings
       ELSE /\ meetings' = [meetings EXCEPT
                               ![processings[r].meeting_id].meeting_status = "processing"]
            /\ processings' = [processings EXCEPT ![r].pc = "run"]
            /\ UNCHANGED store_failures
    /\ UNCHANGED <<recall_sessions, bots, recordings, edit_result, nvars, xvars,
                   meeting_transcripts, tables, now, runs, read_result, webhook>>

\* lines 416-437: the meeting, with its bot id, and the user are read
ProcessStructuredSummary(r, meeting_id, user_id) ==
    LET started == [processings EXCEPT ![r].kind = "manual", ![r].meeting_id = meeting_id,
                                       ![r].user_id = user_id]
        fails(error) == [started EXCEPT ![r].pc = "done", ![r].status_code = 500,
                             ![r].detail = "Failed to process structured summary: " \o error]
    IN
    /\ processings[r].pc = "idle"
    /\ \A q \in Runs : q < r => processings[q].pc # "idle"
    /\ processings' =
          IF meeting_id \notin DOMAIN meetings THEN fails("404: Meeting not found")
          ELSE IF meetings[meeting_id].bot_id = ""
               THEN fails("400: No bot ID found for this meeting")
          ELSE IF user_id \notin Users THEN fails("404: User not found")
          ELSE [started EXCEPT ![r].pc = "run", ![r].bot_id = meetings[meeting_id].bot_id]
    /\ UNCHANGED <<meetings, recall_sessions, bots, recordings, edit_result, nvars, xvars, pvars>>

\* lines 615-621, 440-445 and routers/zoom.py lines 552-557: the request calls
\* process_meeting_summary with the bot id it read from the meetings row; run r
\* is the request's own and waits for no other request
ProcessingRun(r, read_fails) ==
    /\ processings[r].pc = "run"
    /\ BeginRun(r, processings[r].meeting_id, processings[r].bot_id, processings[r].user_id,
                read_fails)

\* start_meeting_with_ai_processing, routers/zoom.py lines 528-540: the meeting
\* is read and with it its bot id
StartMeeting(r, meeting_id, user_id) ==
    LET started == [processings EXCEPT ![r].kind = "start", ![r].meeting_id = meeting_id,
                                       ![r].user_id = user_id]
        fails(error) == [started EXCEPT ![r].pc = "done", ![r].status_code = 500,
                             ![r].detail = "Failed to start meeting: " \o error]
    IN
    /\ processings[r].pc = "idle"
    /\ \A q \in Runs : q < r => processings[q].pc # "idle"
    /\ processings' =
          IF meeting_id \notin DOMAIN meetings THEN fails("404: Meeting not found")
          ELSE IF meetings[meeting_id].bot_id = ""
               THEN fails("400: No recording bot found for this meeting")
          ELSE [started EXCEPT ![r].pc = "mark_started",
                               ![r].bot_id = meetings[meeting_id].bot_id]
    /\ UNCHANGED <<meetings, recall_sessions, bots, recordings, edit_result, nvars, xvars, pvars>>

\* routers/zoom.py lines 542-549: the meeting is marked "started" (started_at
\* is not kept here)
MarkStarted(r, update_fails) ==
    /\ processings[r].pc = "mark_started"
    /\ IF update_fails
       THEN /\ StoreMayFail
            /\ store_failures' = store_failures + 1
            /\ processings' = ProcessingDone(r, 500, "Failed to start meeting: "
                                                         \o "store write failed")
            /\ UNCHANGED meetings
       ELSE /\ meetings' = [meetings EXCEPT
                               ![processings[r].meeting_id].meeting_status = "started"]
            /\ processings' = [processings EXCEPT ![r].pc = "run"]
            /\ UNCHANGED store_failures
    /\ UNCHANGED <<recall_sessions, bots, recordings, edit_result, nvars, xvars,
                   meeting_transcripts, tables, now, runs, read_result, webhook>>

\* routers/zoom.py lines 560-590: the run has returned.  After a success the
\* meeting's ai_processing_status and summary_id are written (columns not kept
\* here); an exception of that update is caught (lines 576-579).  The request
\* answers success whatever the run returned, and meeting_status stays
StartFinish(r, update_fails) ==
    LET succeeded == runs[r].result.status = "success" IN
    /\ processings[r].kind = "start"
    /\ processings[r].pc = "run"
    /\ runs[r].pc = "done"
    /\ IF update_fails
       THEN /\ succeeded
            /\ StoreMayFail
            /\ store_failures' = store_failures + 1
            /\ processings' =
                  ProcessingDone(r, 200, "Meeting started but AI processing encountered an error")
       ELSE /\ UNCHANGED store_failures
            /\ processings' =
                  ProcessingDone(r, 200, IF succeeded
                                         THEN "Meeting started with AI processing completed"
                                         ELSE "Meeting started but AI processing failed")
    /\ UNCHANGED <<meetings, recall_sessions, bots, recordings, edit_result, nvars, xvars,
                   meeting_transcripts, tables, now, runs, read_result, webhook>>

\* update_meeting_bot_id, routers/meeting.py lines 405-437: the bot id of the
\* meetings row is rewritten; every exception leaves as status 500
update_meeting_bot_id(meeting_id, bot_id, update_fails) ==
    /\ meeting_id \in DOMAIN meetings
    /\ IF update_fails
       THEN /\ StoreMayFail
            /\ store_failures' = store_failures + 1
            /\ UNCHANGED meetings
       ELSE /\ meetings' = [meetings EXCEPT ![meeting_id].bot_id = bot_id]
            /\ UNCHANGED store_failures
    /\ UNCHANGED <<recall_sessions, bots, recordings, processings, edit_result, nvars, xvars,
                   meeting_transcripts, tables, now, runs, read_result, webhook>>

\* lines 635-651 and 447-457: the run has returned; the status follows its result
ProcessingFinish(r, update_fails) ==
    LET meeting_id == processings[r].meeting_id
        succeeded == runs[r].result.status = "success"
        prefix == IF processings[r].kind = "auto" THEN "Failed to auto-process meeting: "
                  ELSE "Failed to process structured summary: "
    IN
    /\ processings[r].kind \in {"auto", "manual"}
    /\ processings[r].pc = "run"
    /\ runs[r].pc = "done"
    /\ IF processings[r].kind = "manual" /\ ~succeeded
       THEN \* lines 447-448
            /\ processings' = ProcessingDone(r, 500, prefix \o "500: " \o runs[r].result.error)
            /\ UNCHANGED <<meetings, store_failures>>
       ELSE IF update_fails
       THEN \* the update raises: lines 653-655 and 465-467 answer 500, the status stays
            /\ StoreMayFail
            /\ store_failures' = store_failures + 1
            /\ processings' = ProcessingDone(r, 500, prefix \o "store write failed")
            /\ UNCHANGED meetings
       ELSE IF succeeded
       THEN \* lines 637-640 and 451-454
            /\ meetings' = [meetings EXCEPT ![meeting_id].meeting_status = "completed"]
            /\ processings' = ProcessingDone(r, 200, "")
            /\ UNCHANGED store_failures
       ELSE \* lines 645-651
            /\ meetings' = [meetings EXCEPT ![meeting_id].meeting_status = "error"]
            /\ processings' = ProcessingDone(r, 500, prefix \o "500: " \o runs[r].result.error)
            /\ UNCHANGED store_failures
    /\ UNCHANGED <<recall_sessions, bots, recordings, edit_result, nvars, xvars,
                   meeting_transcripts, tables, now, runs, read_result, webhook>>

(***************************************************************************)
(* The pipeline: deliveries and summary requests in any interleaving.      *)
(* A summary request is made for a meeting with the bot id  *)
(* of its meetings row (routers/recall.py lines 426 and 604), which no     *)
(* step rewrites here.                                                     *)
(***************************************************************************)
Init ==
    /\ IdleNormalizer
    /\ IdleExtractor
    /\ IdlePipeline

Next ==
    \/ Deliver
    \/ LookupSession(FALSE)
    \/ \E t \in ClockReadings : BuildTranscript(t)
    \/ SaveTranscript(FALSE)
    \/ \E r \in Runs, m \in Meetings, u \in Users, f \in BOOLEAN :
           FreeRun(r) /\ BeginRun(r, m, meetings[m].bot_id, u, f)
    \/ \E r \in Runs, o \in PipelineOutcomes, t \in ClockReadings : ExtractRun(r, o, t)
    \/ \E r \in Runs, f \in BOOLEAN : InsertSummary(r, f)
    \/ \E r \in Runs, t \in ClockReadings : BuildComponent(r, t)
    \/ \E r \in Runs, f \in BOOLEAN : SaveComponent(r, f)

Spec == Init /\ [][Next]_vars

(***************************************************************************)
(* Reads beside the summary requests of one meeting, in any interleaving:  *)
(* the runs write summaries with and without component rows, a component   *)
(* insert may fail, and get_meeting_summary makes its reads in between.    *)
(***************************************************************************)
ReadOutcomes == {ModelOutcome("text", OneActionJson), ModelOutcome("text", ThemesOnlyJson)}

\* the recording bot of m1 delivers one fragment
DeliverOne ==
    /\ Len(meeting_transcripts) < MaxStored
    /\ handle_transcription_webhook(
           WebhookRequest(WebhookSecret, "transcript.data",
                          <<Payload(<<"Alice">>, <<Word("Hi", 0, "True")>>, Absent, TRUE)>>,
                          "b1"), FALSE)

NextRead ==
    \/ DeliverOne
    \/ LookupSession(FALSE)
    \/ \E t \in ClockReadings : BuildTranscript(t)
    \/ SaveTranscript(FALSE)
    \/ \E r \in Runs : FreeRun(r) /\ BeginRun(r, "m1", meetings["m1"].bot_id, "u1", FALSE)
    \/ \E r \in Runs, o \in ReadOutcomes, t \in ClockReadings : ExtractRun(r, o, t)
    \/ \E r \in Runs : InsertSummary(r, FALSE)
    \/ \E r \in Runs, t \in ClockReadings : BuildComponent(r, t)
    \/ \E r \in Runs, f \in BOOLEAN : SaveComponent(r, f)
    \/ \E m \in Meetings, f \in BOOLEAN : get_meeting_summary(m, f)
    \/ \E f \in BOOLEAN : ReadComponents(f)

SpecRead == Init /\ [][NextRead]_vars

(***************************************************************************)
(* The Persister on its own: one process_meeting_summary call over a       *)
(* delivered fragment, the model answering with summaries of several       *)
(* shapes.                                                                 *)
(***************************************************************************)
PersisterOutcomes ==
    { ModelOutcome("text", FullSummaryJson), ModelOutcome("text", EmptyListsJson),
      ModelOutcome("text", ThemesOnlyJson), ModelOutcome("text", SeveralItemsJson),
      ModelOutcome("text", MalformedItemJson) }

NextPersister ==
    \/ Deliver
    \/ LookupSession(FALSE)
    \/ \E t \in ClockReadings : BuildTranscript(t)
    \/ SaveTranscript(FALSE)
    \/ \E m \in Meetings, f \in BOOLEAN : BeginRun(1, m, meetings[m].bot_id, "u1", f)
    \/ \E o \in PersisterOutcomes, t \in ClockReadings : ExtractRun(1, o, t)
    \/ \E f \in BOOLEAN : InsertSummary(1, f)
    \/ \E t \in ClockReadings : BuildComponent(1, t)
    \/ \E f \in BOOLEAN : SaveComponent(1, f)

SpecPersister == Init /\ [][NextPersister]_vars

(***************************************************************************)
(* The Ingestor on its own: webhook deliveries of every kind, beside one   *)
(* summary request.                                                        *)
(***************************************************************************)
IngestSecrets == {WebhookSecret, "wrong"}

IngestEvents == {"transcript.data", "bot.status_change"}

IngestPayloads ==
    { <<>>,
      <<Payload(<<"Alice">>, <<Word("Hi", 0, "True")>>, Absent, TRUE)>>,
      <<Payload(<<"Bob">>, <<>>, 0, TRUE)>> }

IngestBots == {"b1", ""}

IngestRequests ==
    {WebhookRequest(secret, event, data, bot_id) :
        secret \in IngestSecrets, event \in IngestEvents,
        data \in IngestPayloads, bot_id \in IngestBots}

Ingest ==
    /\ webhook.delivered < MaxDeliveries
    /\ \E request \in IngestRequests, f \in BOOLEAN :
           handle_transcription_webhook(request, f)

NextIngest ==
    \/ Ingest
    \/ \E f \in BOOLEAN : LookupSession(f)
    \/ \E t \in ClockReadings : BuildTranscript(t)
    \/ \E f \in BOOLEAN : SaveTranscript(f)
    \/ BeginRun(1, "m1", meetings["m1"].bot_id, "u1", FALSE)
    \/ \E t \in ClockReadings : ExtractRun(1, ModelOutcome("text", FullSummaryJson), t)
    \/ InsertSummary(1, FALSE)
    \/ \E t \in ClockReadings : BuildComponent(1, t)
    \/ SaveComponent(1, FALSE)

SpecIngest == Init /\ [][NextIngest]_vars

(***************************************************************************)
(* Requests to the edit routes, in any interleaving, beside summary runs   *)
(* of one meeting, one run after the other.                                *)
(***************************************************************************)
EditOutcomes == {ModelOutcome("text", OneActionJson)}

NextEdit ==
    \/ DeliverOne
    \/ LookupSession(FALSE)
    \/ \E t \in ClockReadings : BuildTranscript(t)
    \/ SaveTranscript(FALSE)
    \/ \E r \in Runs : (\A q \in Runs : q < r => runs[q].pc = "done")
                          /\ BeginRun(r, "m1", meetings["m1"].bot_id, "u1", FALSE)
    \/ \E r \in Runs, o \in EditOutcomes, t \in ClockReadings : ExtractRun(r, o, t)
    \/ \E r \in Runs : InsertSummary(r, FALSE)
    \/ \E r \in Runs, t \in ClockReadings : BuildComponent(r, t)
    \/ \E r \in Runs : SaveComponent(r, FALSE)
    \/ \E e \in Edits, m \in Meetings, w \in BOOLEAN, c \in EditContents :
           direct_update_summary(e, m, w, c, FALSE)
    \/ \E e \in Edits, t \in ClockReadings : BuildWrite(e, t)
    \/ \E e \in Edits, f \in BOOLEAN : UpdateSummaries(e, f)
    \/ \E e \in Edits, m \in RequestedMeetings, found, allowed, approve, h \in BOOLEAN :
           review_edit_request(e, m, found, allowed, approve, h,
                               IF h THEN EmptyListsJson ELSE "", FALSE)
    \/ \E e \in Edits : ReadLatest(e, FALSE)
    \/ \E e \in Edits : UpdateReviewed(e, FALSE)
    \/ \E e \in Edits : LogRevision(e, FALSE)
    \/ \E e \in Edits, m \in RequestedMeetings : create_action_item(e, m, FALSE)
    \/ \E e \in Edits, a \in RequestedActions, h \in BOOLEAN : update_action_item(e, a, h, FALSE)
    \/ \E e \in Edits, a \in RequestedActions : delete_action_item(e, a, FALSE)
    \/ \E e \in Edits : WriteActionItem(e, FALSE)

SpecEdit == Init /\ [][NextEdit]_vars

(***************************************************************************)
(* Processing and start requests of one meeting, in any interleaving: each *)
(* request makes its run of the pipeline, which succeeds or ends in an     *)
(* error.                                                                  *)
(***************************************************************************)
ProcessingOutcomes == {ModelOutcome("text", EmptyListsJson), ModelOutcome("text", "[]")}

NextProcessing ==
    \/ DeliverOne
    \/ LookupSession(FALSE)
    \/ \E t \in ClockReadings : BuildTranscript(t)
    \/ SaveTranscript(FALSE)
    \/ \E m \in Meetings, b \in Bots, f \in BOOLEAN : update_meeting_bot_id(m, b, f)
    \/ \E r \in Runs, m \in {"m1", "m0"} : AutoProcess(r, m, "u1")
    \/ \E r \in Runs, f \in BOOLEAN : MarkProcessing(r, f)
    \/ \E r \in Runs, u \in RequestedUsers : ProcessStructuredSummary(r, "m1", u)
    \/ \E r \in Runs, f \in BOOLEAN : ProcessingRun(r, f)
    \/ \E r \in Runs, o \in ProcessingOutcomes, t \in ClockReadings : ExtractRun(r, o, t)
    \/ \E r \in Runs, f \in BOOLEAN : InsertSummary(r, f)
    \/ \E r \in Runs, t \in ClockReadings : BuildComponent(r, t)
    \/ \E r \in Runs, f \in BOOLEAN : SaveComponent(r, f)
    \/ \E r \in Runs, f \in BOOLEAN : ProcessingFinish(r, f)
    \/ \E r \in Runs : StartMeeting(r, "m1", "u1")
    \/ \E r \in Runs, f \in BOOLEAN : MarkStarted(r, f)
    \/ \E r \in Runs, f \in BOOLEAN : StartFinish(r, f)

SpecProcessing == Init /\ [][NextProcessing]_vars

(***************************************************************************)
(* The recording routes on their own: start, stop and sessions requests    *)
(* for meetings created without a bot id, in any interleaving.             *)
(***************************************************************************)
InitRecording ==
    /\ IdleNormalizer
    /\ IdleExtractor
    /\ EmptyStore
    /\ runs = [r \in Runs |-> IdleRun]
    /\ read_result = NoRead
    /\ webhook = NoWebhook
    /\ MeetingsWithoutBots

NextRecording ==
    \/ \E c \in Recordings, m \in RequestedMeetings, u \in RequestedUsers : StartRecording(c, m, u)
    \/ \E c \in Recordings, f \in BOOLEAN : CreateBot(c, f)
    \/ \E c \in Recordings, t \in ClockReadings : BuildSessionWrite(c, t)
    \/ \E c \in Recordings, f \in BOOLEAN : InsertSession(c, f)
    \/ \E c \in Recordings, f \in BOOLEAN : UpdateMeetingBot(c, f)
    \/ \E c \in Recordings, m \in RequestedMeetings : StopRecording(c, m)
    \/ \E c \in Recordings : VerifySession(c)
    \/ \E c \in Recordings, f \in BOOLEAN : LeaveCall(c, f)
    \/ \E c \in Recordings, f \in BOOLEAN : MarkStopped(c, f)
    \/ \E c \in Recordings, m \in RequestedMeetings, u \in RequestedUsers :
           generate_meeting_link_with_recording(c, m, u)
    \/ \E c \in Recordings, m \in RequestedMeetings : get_meeting_sessions(c, m)
    \/ \E c \in Recordings, f \in BOOLEAN : ReadSessions(c, f)

SpecRecording == InitRecording /\ [][NextRecording]_vars

(***************************************************************************)
(* The Normalizer on its own: a session's fragments arrive in some order,  *)
(* are normalized, and may be delivered again in another order.            *)
(***************************************************************************)
RECURSIVE SeqsUpTo(_, _)
SeqsUpTo(S, n) ==
    IF n = 0 THEN {<<>>}
    ELSE LET shorter == SeqsUpTo(S, n - 1) IN
         shorter \cup {Append(s, x) : s \in {t \in shorter : Len(t) = n - 1}, x \in S}

\* the session a recording of the meeting left (recallai_services lines 104-113)
RecordedSession(meeting_id, bot_id) ==
    [meeting_id |-> meeting_id, user_id |-> "u1", bot_id |-> bot_id, status |-> "active",
     created_at |-> 0, ended_at |-> Absent]

\* the rows of meeting_transcripts the fragments were stored as: those of the
\* bot of m1, in arrival order (save_transcript, recallai_services lines 195-199)
StoredRows(rows) ==
    [i \in DOMAIN rows |->
        [bot_id |-> "b1", transcript_data |-> rows[i].transcript_data, created_at |-> 0]]

\* transcripts are the fragments the store holds for the bot of m1, which is
\* the only bot that delivered any; m1 was recorded or was not, m2 has a bot id
\* or has none and was recorded or was not
InitNormalizer ==
    /\ transcripts \in {[i \in 1..Len(s) |-> Row(s[i])] : s \in SeqsUpTo(FragmentPool, MaxFrags)}
    /\ transcript_text = NoText
    /\ normalized = FALSE
    /\ final_transcript = NotBuilt
    /\ IdleExtractor
    /\ meeting_transcripts = StoredRows(transcripts)
    /\ meeting_summaries = <<>>
    /\ action_items = <<>>
    /\ meeting_decisions = <<>>
    /\ meeting_discussions = <<>>
    /\ meeting_jargon = <<>>
    /\ meeting_themes = <<>>
    /\ action_ids = 0
    /\ now = 0
    /\ store_failures = 0
    /\ runs = [r \in Runs |-> IdleRun]
    /\ read_result = NoRead
    /\ webhook = NoWebhook
    /\ NoRequests
    /\ \E b \in {"b2", ""} :
           meetings = [m \in Meetings |-> Meeting(IF m = "m1" THEN "b1" ELSE b, "scheduled")]
    /\ recall_sessions \in {<<>>, <<RecordedSession("m1", "b1")>>,
                            <<RecordedSession("m1", "b1"), RecordedSession("m2", "b2")>>}
    /\ bots = Len(recall_sessions)

Normalize ==
    /\ ~normalized
    /\ transcript_text' = _process_transcript_data(transcripts)
    /\ normalized' = TRUE
    /\ UNCHANGED <<transcripts, final_transcript, xvars, pvars, rvars>>

\* the summarize request ends with a response
Summarized(status_code, detail) ==
    [NotBuilt EXCEPT !.pc = "done", !.status_code = status_code, !.detail = detail]

\* a step of the summarize request: it writes nothing
SummarizeReadsOnly ==
    UNCHANGED <<transcripts, transcript_text, normalized, xvars, meeting_transcripts, tables,
                now, runs, read_result, webhook, rvars>>

\* the route summarize_transcript, routers/recall.py lines 291-345; every
\* exception leaves the route as status 500 (lines 342-344).  Lines 293-305:
\* the meeting is read and with it its bot id
Summarize(meeting_id, read_fails) ==
    /\ final_transcript.pc = "idle"
    /\ IF read_fails
       THEN /\ StoreMayFail
            /\ store_failures' = store_failures + 1
            /\ final_transcript' = Summarized(500, "Failed to generate summary: store read failed")
       ELSE /\ UNCHANGED store_failures
            /\ final_transcript' =
                  IF meeting_id \notin DOMAIN meetings
                  THEN Summarized(500, "Failed to generate summary: 404: Meeting not found")
                  ELSE IF meetings[meeting_id].bot_id = ""
                  THEN Summarized(500, "Failed to generate summary: "
                                           \o "400: No bot ID found for this meeting")
                  ELSE [NotBuilt EXCEPT !.pc = "session", !.bot_id = meetings[meeting_id].bot_id]
    /\ SummarizeReadsOnly

\* lines 308-314: the sessions of the bot are read
SummarizeSession(read_fails) ==
    /\ final_transcript.pc = "session"
    /\ IF read_fails
       THEN /\ StoreMayFail
            /\ store_failures' = store_failures + 1
            /\ final_transcript' = Summarized(500, "Failed to generate summary: store read failed")
       ELSE /\ UNCHANGED store_failures
            /\ final_transcript' =
                  IF SelectSeq(recall_sessions,
                               LAMBDA row : row.bot_id = final_transcript.bot_id) = <<>>
                  THEN Summarized(500, "Failed to generate summary: "
                                           \o "404: Recording session not found")
                  ELSE [final_transcript EXCEPT !.pc = "transcripts"]
    /\ SummarizeReadsOnly

\* lines 317-332: the rows of the bot are read, ordered by created_at; without
\* rows the request is answered, else the payloads of the rows are taken
SummarizeTranscripts(read_fails) ==
    /\ final_transcript.pc = "transcripts"
    /\ IF read_fails
       THEN /\ StoreMayFail
            /\ store_failures' = store_failures + 1
            /\ final_transcript' = Summarized(500, "Failed to generate summary: store read failed")
       ELSE /\ UNCHANGED store_failures
            /\ \E rows \in {TranscriptsOf(final_transcript.bot_id)} :
                  final_transcript' =
                      IF rows = <<>>
                      THEN Summarized(200, "No transcript data available to summarize.")
                      ELSE [final_transcript EXCEPT
                               !.pc = "service",
                               !.payloads = [i \in DOMAIN rows |-> rows[i].transcript_data]]
    /\ SummarizeReadsOnly

\* lines 335-340: the payloads are handed to
\* AISummarizationService.summarize_transcript, and what it returns is the answer
SummarizeService ==
    /\ final_transcript.pc = "service"
    /\ \E summary \in {summarize_transcript(api_key, final_transcript.payloads)} :
          final_transcript' = [Summarized(200, "") EXCEPT !.built = summary.built,
                                                          !.raised = summary.raised,
                                                          !.text = summary.text]
    /\ UNCHANGED store_failures
    /\ SummarizeReadsOnly

\* The same fragment set stored in another arrival order: two neighbours
\* swapped, while no summarize request is in flight.
Reorder ==
    /\ final_transcript.pc \in {"idle", "done"}
    /\ \E i \in 1..(Len(transcripts) - 1) :
          /\ transcripts[i] # transcripts[i + 1]
          /\ \E swapped \in {[transcripts EXCEPT ![i] = transcripts[i + 1],
                                                 ![i + 1] = transcripts[i]]} :
                /\ transcripts' = swapped
                /\ meeting_transcripts' = StoredRows(swapped)
    /\ normalized' = FALSE
    /\ transcript_text' = NoText
    /\ final_transcript' = NotBuilt
    /\ UNCHANGED <<xvars, tables, now, store_failures, runs, read_result, webhook, rvars>>

NextNormalizer ==
    \/ Normalize
    \/ Reorder
    \/ \E m \in RequestedMeetings, f \in BOOLEAN : Summarize(m, f)
    \/ \E f \in BOOLEAN : SummarizeSession(f)
    \/ \E f \in BOOLEAN : SummarizeTranscripts(f)
    \/ SummarizeService

SpecNormalizer == InitNormalizer /\ [][NextNormalizer]_vars

(***************************************************************************)
(* The Extractor on its own: one call of _extract_structured_summary on a  *)
(* transcript text, with the external model behaving in one of the ways    *)
(* above.                                                                  *)
(***************************************************************************)
InitExtractor ==
    /\ api_key \in ApiKeys
    /\ prompt_text \in TextPool
    /\ model_outcome \in ExtractorOutcomes
    /\ extraction = NoExtraction
    /\ extracted = FALSE
    /\ IdleNormalizer
    /\ IdlePipeline

Extract ==
    /\ ~extracted
    /\ extraction' = _extract_structured_summary(api_key, prompt_text, model_outcome)
    /\ extracted' = TRUE
    /\ UNCHANGED <<api_key, prompt_text, model_outcome, nvars, pvars, rvars>>

NextExtractor == Extract

SpecExtractor == InitExtractor /\ [][NextExtractor]_vars

(***************************************************************************)
(* Reading a rendered transcript back: the words of "<speaker>: <w> <w>"   *)
(* lines (str.split on the separators the renderer writes).                *)
(***************************************************************************)
RECURSIVE SplitAt(_, _, _, _)
SplitAt(s, sep, i, start) ==
    IF i + Len(sep) - 1 > Len(s) THEN <<SubSeq(s, start, Len(s))>>
    ELSE IF SubSeq(s, i, i + Len(sep) - 1) = sep
         THEN <<SubSeq(s, start, i - 1)>> \o SplitAt(s, sep, i + Len(sep), i + Len(sep))
         ELSE SplitAt(s, sep, i + 1, start)

Split(s, sep) == SplitAt(s, sep, 1, 1)

RECURSIVE Flatten(_)
Flatten(seqs) == IF seqs = <<>> THEN <<>> ELSE Head(seqs) \o Flatten(Tail(seqs))

\* the words of one line, after the speaker label
LineWords(line) ==
    LET parts == Split(line, ": ") IN
    IF Len(parts) < 2 THEN <<>> ELSE Split(Join(": ", Tail(parts)), " ")

TextWords(text) ==
    IF text = "" THEN <<>>
    ELSE LET lines == Split(text, "\n") IN
         Flatten([i \in 1..Len(lines) |-> LineWords(lines[i])])

CountIn(seq, x) == Cardinality({i \in DOMAIN seq : seq[i] = x})

SameBag(a, b) ==
    /\ Len(a) = Len(b)
    /\ \A i \in DOMAIN a : CountIn(a, a[i]) = CountIn(b, a[i])

Texts(ws) == [i \in DOMAIN ws |-> ws[i].text]

Reorderings(rows) ==
    {[i \in 1..Len(rows) |-> rows[f[i]]] : f \in Permutations(1..Len(rows))}

\* the fragment each extracted word comes from, in extraction order
RECURSIVE WordOrigins(_, _)
WordOrigins(rows, k) ==
    IF k > Len(rows) THEN <<>>
    ELSE [i \in 1..Len(ExtractWords(rows[k])) |-> k] \o WordOrigins(rows, k + 1)

\* no two words of different fragments resolve to the same timestamp
CrossFragmentTimestampsDistinct(rows) ==
    LET ws == all_words(rows)
        from == WordOrigins(rows, 1)
    IN  \A i, j \in DOMAIN ws :
            from[i] # from[j] => ws[i].timestamp # ws[j].timestamp

(***************************************************************************)
(* C1 as stated: the Normalizer returns the identical outcome for every    *)
(* arrival order of the same fragment set, equal timestamps in different   *)
(* fragments included.                                                     *)
(***************************************************************************)
C1_PermutationInvariantAlways ==
    normalized =>
        \A p \in Reorderings(transcripts) : _process_transcript_data(p) = transcript_text

(***************************************************************************)
(* C1 amended: the Normalizer returns the identical outcome for every      *)
(* arrival order of a fragment set in which no two words of different      *)
(* fragments resolve to the same timestamp.                                *)
(***************************************************************************)
C1_PermutationInvariantDistinctTimestamps ==
    (normalized /\ CrossFragmentTimestampsDistinct(transcripts)) =>
        \A p \in Reorderings(transcripts) : _process_transcript_data(p) = transcript_text

\* Two different fragments, stored later-first, no shared timestamp, text produced.
C1_Witness ==
    /\ normalized
    /\ Len(transcripts) >= 2
    /\ CrossFragmentTimestampsDistinct(transcripts)
    /\ \E i \in 1..(Len(transcripts) - 1) :
          /\ transcripts[i].transcript_data.words # <<>>
          /\ transcripts[i + 1].transcript_data.words # <<>>
          /\ all_words(<<transcripts[i]>>)[1].timestamp
                > all_words(<<transcripts[i + 1]>>)[1].timestamp
    /\ transcript_text.raised = ""
    /\ transcript_text.text # ""

(***************************************************************************)
(* C2: when the Normalizer returns a text, its words are exactly the final *)
(* extracted words if at least one extracted word is final, and every      *)
(* extracted word otherwise.                                               *)
(***************************************************************************)
C2_FinalityFilterTotal ==
    (normalized /\ transcript_text.raised = "") =>
        LET ws == all_words(transcripts)
            finals == SelectSeq(ws, LAMBDA w : w.is_final)
        IN  IF finals # <<>>
            THEN SameBag(TextWords(transcript_text.text), Texts(finals))
            ELSE SameBag(TextWords(transcript_text.text), Texts(ws))

\* A text was produced from final and non-final words together.
C2_Witness ==
    /\ normalized
    /\ transcript_text.raised = ""
    /\ transcript_text.text # ""
    /\ \E i, j \in DOMAIN all_words(transcripts) :
          /\ all_words(transcripts)[i].is_final
          /\ ~all_words(transcripts)[j].is_final

(***************************************************************************)
(* Properties of the Extractor.                                            *)
(***************************************************************************)
SummaryKeys ==
    {"overview", "action_items", "key_decisions", "key_takeaways", "discussion_points",
     "jargon_clarifications", "themes", "context_group"}

\* a JSON object carrying the eight top-level keys
IsStructuredSummary(v) == IsDict(v) /\ \A k \in SummaryKeys : HasKey(v, k)

\* the model call made by the Extractor on the harness inputs
HarnessCall == _call_gemini_api(api_key, model_outcome)

(***************************************************************************)
(* C3 as stated: on an empty or whitespace-only transcript text the        *)
(* Extractor returns the fallback structure and does not call the model.   *)
(***************************************************************************)
C3_BlankTextSkipsModel ==
    (extracted /\ Strip(prompt_text) = "") =>
        (extraction.value = Fallback /\ ~extraction.called)

(***************************************************************************)
(* C4 as stated: when the model call raises a transport error, the         *)
(* Extractor raises too instead of returning the fallback structure.       *)
(***************************************************************************)
C4_TransportErrorPropagates ==
    (extracted /\ api_key # "" /\ model_outcome.kind = "raise") =>
        extraction.raised # ""

(***************************************************************************)
(* C6: when the model returns text that is no JSON document, the Extractor *)
(* returns exactly the fallback structure and raises nothing.              *)
(***************************************************************************)
C6_MalformedJsonGivesFallback ==
    (/\ extracted
     /\ HarnessCall.raised = ""
     /\ \/ HarnessCall.text \in NotJsonResponses
        \/ json_loads(CleanResponse(HarnessCall.text)).raised # "") =>
        (/\ extraction.raised = ""
         /\ extraction.value = Fallback
         /\ Lookup(extraction.value, "overview") = JStr("Error processing transcript")
         /\ Lookup(extraction.value, "context_group") = JStr("general")
         /\ \A k \in SummaryKeys \ {"overview", "context_group"} :
                Lookup(extraction.value, k) = JList(<<>>))

\* The model was called and answered with prose.
C6_Witness ==
    /\ extracted
    /\ extraction.called
    /\ model_outcome = ModelOutcome("text", "not json")

(***************************************************************************)
(* C7 as stated: when the response parses as JSON but is no object with    *)
(* the eight top-level keys, the Extractor returns the fallback structure. *)
(***************************************************************************)
C7_NonSummaryJsonGivesFallback ==
    (/\ extracted
     /\ HarnessCall.raised = ""
     /\ json_loads(CleanResponse(HarnessCall.text)).raised = ""
     /\ ~IsStructuredSummary(json_loads(CleanResponse(HarnessCall.text)).value)) =>
        extraction.value = Fallback

(***************************************************************************)
(* Properties of the pipeline.                                             *)
(***************************************************************************)
Range(seq) == {seq[i] : i \in DOMAIN seq}

\* the rows a run wrote to a table
WrittenBy(table, r) == SelectSeq(table, LAMBDA row : row.run = r)

\* the component rows a run wrote, over the five tables
ComponentRowsOf(r) ==
    Len(WrittenBy(action_items, r)) + Len(WrittenBy(meeting_decisions, r))
      + Len(WrittenBy(meeting_discussions, r)) + Len(WrittenBy(meeting_jargon, r))
      + Len(WrittenBy(meeting_themes, r))

(***************************************************************************)
(* C5 as stated: a run whose model call raised a timeout returns status    *)
(* "error" with an error message and has inserted no row into              *)
(* meeting_summaries or a component table.                                 *)
(***************************************************************************)
C5_TimeoutReportsErrorAndPersistsNothing ==
    \A r \in Runs :
        (runs[r].pc = "done" /\ runs[r].model_error = "timeout") =>
            /\ runs[r].result.status = "error"
            /\ runs[r].result.error # ""
            /\ WrittenBy(meeting_summaries, r) = <<>>
            /\ ComponentRowsOf(r) = 0

(***************************************************************************)
(* C8 as stated: every row of meeting_summaries holds a JSON object with   *)
(* all eight top-level fields.                                             *)
(***************************************************************************)
C8_StoredSummariesComplete ==
    \A row \in Range(meeting_summaries) :
        /\ json_loads(row.content).raised = ""
        /\ IsStructuredSummary(json_loads(row.content).value)

(***************************************************************************)
(* C9 as stated: once a run has ended, the canonical row it wrote has      *)
(* exactly one meeting_themes row written by the same run.                 *)
(***************************************************************************)
C9_OneThemesRowPerSummary ==
    \A r \in Runs :
        (runs[r].pc = "done" /\ WrittenBy(meeting_summaries, r) # <<>>) =>
            Len(WrittenBy(meeting_themes, r)) = 1

ComponentFailed(r) ==
    runs[r].pc = "done" /\ runs[r].result.status = "error" /\ runs[r].summary_id # 0

\* a run's canonical row precedes its component rows and is never removed
CanonicalRowFirstAndKept(r) ==
    /\ ComponentRowsOf(r) > 0 => Len(WrittenBy(meeting_summaries, r)) = 1
    /\ runs[r].pc = "components" => Len(WrittenBy(meeting_summaries, r)) = 1
    /\ runs[r].summary_id # 0 =>
          \E row \in Range(SummariesOf(runs[r].meeting_id)) :
              /\ row.summary_id = runs[r].summary_id
              /\ row.run = r
              /\ row.content = json_dumps(runs[r].structured_summary)

\* this step is the first read of a get_meeting_summary call for meeting_id
\* that the store answers
ReadBegins(meeting_id) ==
    /\ read_result.pc \in {"idle", "done"}
    /\ read_result' # read_result
    /\ read_result'.meeting_id = meeting_id
    /\ read_result'.pc \in {"action_items", "done"}
    /\ store_failures' = store_failures

\* the call begun in this step has found a summary row
ReadFinds == read_result'.pc = "action_items"

(***************************************************************************)
(* C10 as stated: a run writes its canonical row before any component row; *)
(* the canonical row is never removed, a failed component write included;  *)
(* and every later read of the meeting's summary returns that row.         *)
(***************************************************************************)
C10_CanonicalRowAlwaysReturned ==
    /\ [](\A r \in Runs : CanonicalRowFirstAndKept(r))
    /\ [][ \A r \in Runs :
              (ComponentFailed(r) /\ ReadBegins(runs[r].meeting_id)) =>
                  /\ ReadFinds
                  /\ read_result'.summary_id = runs[r].summary_id ]_vars

(***************************************************************************)
(* C10 amended: a run writes its canonical row before any component row;   *)
(* the canonical row is never removed, a failed component write included;  *)
(* and a read of the meeting's summary that begins later finds a summary,  *)
(* namely that row unless the meeting has another summary row that is as   *)
(* recent.                                                                 *)
(***************************************************************************)
C10_CanonicalRowFirstAndKept ==
    /\ [](\A r \in Runs : CanonicalRowFirstAndKept(r))
    /\ [][ \A r \in Runs :
              (ComponentFailed(r) /\ ReadBegins(runs[r].meeting_id)) =>
                  /\ ReadFinds
                  /\ \/ read_result'.summary_id = runs[r].summary_id
                     \/ \E row \in Range(SummariesOf(runs[r].meeting_id)) :
                            /\ row.summary_id = read_result'.summary_id
                            /\ row.summary_id # runs[r].summary_id
                            /\ row.created_at >= runs[r].created_at ]_vars

\* A component write failed after the canonical insert, and a later read of
\* the meeting returns that very row.
C10_Witness ==
    \E r \in Runs :
        /\ ComponentFailed(r)
        /\ read_result.status = "success"
        /\ read_result.meeting_id = runs[r].meeting_id
        /\ read_result.summary_id = runs[r].summary_id
        /\ read_result.content = runs[r].structured_summary

(***************************************************************************)
(* Properties of the component writes.                                     *)
(***************************************************************************)
RECURSIVE CountDicts(_)
CountDicts(items) ==
    IF items = <<>> THEN 0
    ELSE (IF IsDict(Head(items)) THEN 1 ELSE 0) + CountDicts(Tail(items))

\* the entries of one list of a summary that are objects
WellFormedCount(summary, key) ==
    CountDicts(Iterate(DictGet(summary, key, JList(<<>>))).items)

WellFormedEntries(summary) ==
    WellFormedCount(summary, "action_items") + WellFormedCount(summary, "key_decisions")
      + WellFormedCount(summary, "discussion_points")
      + WellFormedCount(summary, "jargon_clarifications")

\* a summary object whose four component lists are lists of objects
WellFormedSummary(summary) ==
    /\ IsDict(summary)
    /\ \A t \in DOMAIN ComponentKeys :
          LET v == DictGet(summary, ComponentKeys[t], JList(<<>>)) IN
          v.kind = "list" /\ \A i \in DOMAIN v.items : IsDict(v.items[i])

ListLen(summary, key) == Len(DictGet(summary, key, JList(<<>>)).items)

\* the run got as far as _save_summary_components and has ended
ComponentsEnded(r) == runs[r].pc = "done" /\ runs[r].summary_id # 0

(***************************************************************************)
(* C11 as stated: component writes are independent; once a run has ended,  *)
(* every well-formed entry of its summary and the themes row have been     *)
(* written, but for the inserts the store itself failed.                   *)
(***************************************************************************)
C11_ComponentWritesIndependent ==
    \A r \in Runs :
        (ComponentsEnded(r) /\ IsDict(runs[r].structured_summary)) =>
            ComponentRowsOf(r) + store_failures
                >= WellFormedEntries(runs[r].structured_summary) + 1

(***************************************************************************)
(* C12: for a summary whose lists hold objects, and a store that fails no  *)
(* operation, _save_summary_components writes one row per action item,    *)
(* decision, discussion point and jargon entry and exactly one themes row, *)
(* and the run reports success.                                            *)
(***************************************************************************)
C12_RowCountsMatchLists ==
    \A r \in Runs :
        (/\ ComponentsEnded(r)
         /\ WellFormedSummary(runs[r].structured_summary)
         /\ store_failures = 0) =>
            /\ runs[r].result.status = "success"
            /\ Len(WrittenBy(action_items, r)) = ListLen(runs[r].structured_summary, "action_items")
            /\ Len(WrittenBy(meeting_decisions, r))
                  = ListLen(runs[r].structured_summary, "key_decisions")
            /\ Len(WrittenBy(meeting_discussions, r))
                  = ListLen(runs[r].structured_summary, "discussion_points")
            /\ Len(WrittenBy(meeting_jargon, r))
                  = ListLen(runs[r].structured_summary, "jargon_clarifications")
            /\ Len(WrittenBy(meeting_themes, r)) = 1

\* A run has ended on a summary with no action item and two themes.
C12_Witness ==
    /\ ComponentsEnded(1)
    /\ store_failures = 0
    /\ runs[1].structured_summary = JsonDecode(ThemesOnlyJson).value
    /\ action_items = <<>>
    /\ Len(meeting_themes) = 1
    /\ meeting_themes[1].themes = "[\"m\", \"n\"]"

(***************************************************************************)
(* Properties of the Normalizer's outcome.                                 *)
(***************************************************************************)
(***************************************************************************)
(* C13 as stated: the Normalizer raises for no fragment set.               *)
(***************************************************************************)
C13_NormalizerNeverRaises == normalized => transcript_text.raised = ""

\* the speaker names the fragments carry
SpeakerNames(rows) ==
    {rows[i].transcript_data.participant[1] :
        i \in {j \in DOMAIN rows : rows[j].transcript_data.participant # <<>>}}

\* "<speaker>: <text>" with a label of the fragments or "Unknown", and a word
WellFormedLine(line, labels) ==
    LET parts == Split(line, ": ") IN
    /\ Len(parts) >= 2
    /\ parts[1] \in labels \cup {"Unknown"}
    /\ parts[2] # ""

(***************************************************************************)
(* C14 as stated: a text the Normalizer returns is empty or made of lines  *)
(* "<speaker>: <text>", the speaker a label of the fragments or "Unknown", *)
(* the text at least one word.                                             *)
(***************************************************************************)
C14_OutputLinesWellFormed ==
    (normalized /\ transcript_text.raised = "" /\ transcript_text.text # "") =>
        LET lines == Split(transcript_text.text, "\n") IN
        \A i \in DOMAIN lines : WellFormedLine(lines[i], SpeakerNames(transcripts))

(***************************************************************************)
(* C15 as stated: a run that finds no fragment for its session does not    *)
(* report an error.                                                        *)
(***************************************************************************)
C15_EmptyFragmentSetIsNoError ==
    \A r \in Runs :
        (/\ runs[r].pc = "done"
         /\ TranscriptsOf(runs[r].bot_id) = <<>>
         /\ runs[r].result.error # "store read failed") =>
            runs[r].result.status # "error"

(***************************************************************************)
(* Properties of the Ingestor.                                             *)
(***************************************************************************)
IsPrefix(a, b) == Len(a) <= Len(b) /\ SubSeq(b, 1, Len(a)) = a

\* a webhook delivery has just been handled
Delivered == webhook'.delivered = webhook.delivered + 1

\* valid secret, event "transcript.data", a payload, a bot id, and the write made
AcceptedDelivery(w) ==
    /\ w.request.secret = WebhookSecret
    /\ w.request.event = "transcript.data"
    /\ w.request.data # <<>>
    /\ w.request.bot_id # ""
    /\ w.response = Acknowledged

(***************************************************************************)
(* C16: every accepted "transcript.data" delivery appends exactly one row  *)
(* holding the payload unmodified under its bot id, a repeated payload     *)
(* included; no other step adds a row; and no step changes or removes a    *)
(* row already stored.                                                     *)
(***************************************************************************)
C16_IngestionAppendOnly ==
    [][ /\ IsPrefix(meeting_transcripts, meeting_transcripts')
        /\ (Delivered /\ AcceptedDelivery(webhook')) =>
               meeting_transcripts' =
                   Append(meeting_transcripts,
                          [bot_id          |-> webhook'.request.bot_id,
                           transcript_data |-> webhook'.request.data[1],
                           created_at      |-> webhook.utcnow])
        /\ ~(Delivered /\ AcceptedDelivery(webhook')) =>
               meeting_transcripts' = meeting_transcripts ]_vars

\* The same payload was accepted twice for one session and is stored twice.
C16_Witness ==
    /\ AcceptedDelivery(webhook)
    /\ Len(meeting_transcripts) >= 2
    /\ meeting_transcripts[1].transcript_data = meeting_transcripts[2].transcript_data
    /\ meeting_transcripts[1].bot_id = meeting_transcripts[2].bot_id
    /\ meeting_transcripts[2].transcript_data = webhook.request.data[1]

StoreUnchanged == UNCHANGED <<meeting_transcripts, tables>>

(***************************************************************************)
(* C17 as stated: a delivery whose event is not "transcript.data" is       *)
(* acknowledged with success and leaves the store unchanged, whatever      *)
(* secret it carries.                                                      *)
(***************************************************************************)
C17_OtherEventsAcknowledgedAlways ==
    [][ (Delivered /\ webhook'.request.event # "transcript.data") =>
            (webhook'.response = Acknowledged /\ StoreUnchanged) ]_vars

(***************************************************************************)
(* C17 amended: a delivery whose event is not "transcript.data" leaves the *)
(* store unchanged, and is acknowledged with success when it carries the   *)
(* valid secret.                                                           *)
(***************************************************************************)
C17_OtherEventsAreNoOps ==
    [][ (Delivered /\ webhook'.request.event # "transcript.data") =>
            /\ StoreUnchanged
            /\ webhook'.request.secret = WebhookSecret => webhook'.response = Acknowledged ]_vars

\* Another event, carrying a payload and a bot id, was acknowledged.
C17_Witness ==
    /\ webhook.delivered > 0
    /\ webhook.request.secret = WebhookSecret
    /\ webhook.request.event = "bot.status_change"
    /\ webhook.request.data # <<>>
    /\ webhook.request.bot_id # ""
    /\ webhook.response = Acknowledged
    /\ meeting_transcripts = <<>>

(***************************************************************************)
(* C18: a run of process_meeting_summary always ends with a result object: *)
(* status "success" when the canonical row and the themes row were         *)
(* written, and otherwise status "error" with an error message.            *)
(***************************************************************************)
C18_RunEndsWithStatusObject ==
    \A r \in Runs :
        runs[r].pc = "done" =>
            IF runs[r].summary_id # 0 /\ Len(WrittenBy(meeting_themes, r)) = 1
            THEN runs[r].result.status = "success" /\ runs[r].result.error = ""
            ELSE runs[r].result.status = "error" /\ runs[r].result.error # ""

\* Runs have ended on a failure of the Normalizer and on a failed component write.
C18_Witness ==
    \E r, q \in Runs :
        /\ runs[r].pc = "done"
        /\ runs[r].result = [status |-> "error", error |-> "store write failed", summary_id |-> 0]
        /\ runs[r].summary_id # 0
        /\ runs[q].pc = "done"
        /\ runs[q].result.status = "error"
        /\ runs[q].transcript_text = ""

(***************************************************************************)
(* C19: under any interleaving of runs, a read of a meeting that finds a   *)
(* summary takes the structured_summary row of that meeting whose          *)
(* created_at is the greatest when it is read, and returns that row; the   *)
(* rows already stored stay as they are.                                   *)
(***************************************************************************)
\* the row the call takes at its first read is a latest one of the meeting
ReadIsLatest ==
    (read_result.pc \in {"idle", "done"} /\ read_result'.pc = "action_items") =>
        \E row \in Range(SummariesOf(read_result'.meeting_id)) :
            /\ row.summary_id = read_result'.summary_id
            /\ read_result'.content = json_loads(row.content).value
            /\ \A other \in Range(SummariesOf(read_result'.meeting_id)) :
                   other.created_at <= row.created_at

\* the call returns the row it took
ReadReturnsRowTaken ==
    (read_result.pc = "discussions" /\ read_result'.status = "success") =>
        /\ read_result'.meeting_id = read_result.meeting_id
        /\ read_result'.summary_id = read_result.summary_id
        /\ read_result'.content = read_result.content

C19_ReadReturnsLatest ==
    [][ /\ ReadIsLatest
        /\ ReadReturnsRowTaken
        /\ IsPrefix(meeting_summaries, meeting_summaries') ]_vars

\* Two runs of one meeting interleaved: the row inserted first is the more
\* recent one, and the read returns it.
C19_Witness ==
    /\ read_result.status = "success"
    /\ Len(meeting_summaries) = 2
    /\ meeting_summaries[1].meeting_id = meeting_summaries[2].meeting_id
    /\ meeting_summaries[1].created_at > meeting_summaries[2].created_at
    /\ read_result.meeting_id = meeting_summaries[1].meeting_id
    /\ read_result.summary_id = meeting_summaries[1].summary_id

(***************************************************************************)
(* C20: the words of the returned text are in non-decreasing order of      *)
(* timestamp, words of equal timestamp in the order they were extracted.   *)
(***************************************************************************)
\* the place of the k-th extracted word in chronological order, ties by extraction
Rank(ws, k) ==
    1 + Cardinality({j \in DOMAIN ws :
                        \/ ws[j].timestamp < ws[k].timestamp
                        \/ ws[j].timestamp = ws[k].timestamp /\ j < k})

ChronologicalStable(ws) ==
    [n \in DOMAIN ws |-> ws[CHOOSE k \in DOMAIN ws : Rank(ws, k) = n]]

KeptWords(ws) ==
    IF \E i \in DOMAIN ws : ws[i].is_final THEN SelectSeq(ws, LAMBDA w : w.is_final) ELSE ws

C20_ChronologicalStableOrder ==
    (normalized /\ transcript_text.raised = "") =>
        TextWords(transcript_text.text)
            = Texts(KeptWords(ChronologicalStable(all_words(transcripts))))

\* Two kept words of different fragments share a timestamp, and a word extracted
\* before one of them is later than it.
C20_Witness ==
    /\ normalized
    /\ transcript_text.raised = ""
    /\ LET ws == all_words(transcripts)
           from == WordOrigins(transcripts, 1)
           kept == KeptWords(ws)
       IN  /\ \E i, j \in DOMAIN ws :
                 /\ from[i] # from[j]
                 /\ ws[i].timestamp = ws[j].timestamp
                 /\ ws[i] \in Range(kept) /\ ws[j] \in Range(kept)
           /\ \E i, j \in DOMAIN ws :
                 /\ i < j
                 /\ ws[i].timestamp > ws[j].timestamp
                 /\ ws[i] \in Range(kept) /\ ws[j] \in Range(kept)

(***************************************************************************)
(* C21: speaker turns are maximal runs: the Normalizer returns a text in   *)
(* which no two adjacent lines carry the same speaker label, and the first *)
(* kept word opens the first turn whatever its speaker is, an absent       *)
(* speaker included.                                                       *)
(***************************************************************************)
LineLabel(line) == Split(line, ": ")[1]

TextLines(text) == IF text = "" THEN <<>> ELSE Split(text, "\n")

C21_SpeakerTurnsMaximal ==
    normalized =>
        LET kept  == words_to_process(sort_by_timestamp(all_words(transcripts)))
            lines == TextLines(transcript_text.text)
        IN  /\ transcript_text.raised = ""
            /\ \A i \in 1..(Len(lines) - 1) : LineLabel(lines[i]) # LineLabel(lines[i + 1])
            /\ kept # <<>> =>
                  /\ lines # <<>>
                  /\ LineWords(lines[1]) # <<>>
                  /\ LineWords(lines[1])[1] = kept[1].text

(***************************************************************************)
(* C22: every word of the returned text stands under the label of its      *)
(* fragment resolved in the order: the explicit "speaker" field, else the  *)
(* participant's name, else the literal "Unknown".                         *)
(***************************************************************************)
ResolvedSpeaker(payload) ==
    IF payload.speaker # <<>> THEN payload.speaker[1]
    ELSE IF payload.participant # <<>> THEN payload.participant[1]
    ELSE "Unknown"

\* the words of a rendered text, each with the label of its line
LabelledWords(text) ==
    LET lines == TextLines(text) IN
    Flatten([i \in 1..Len(lines) |->
                [k \in 1..Len(LineWords(lines[i])) |->
                    <<LineLabel(lines[i]), LineWords(lines[i])[k]>>]])

\* the extracted words, each carrying the resolved label of its fragment
ResolvedWords(rows) ==
    LET ws   == all_words(rows)
        from == WordOrigins(rows, 1)
    IN  [i \in DOMAIN ws |->
            [ws[i] EXCEPT !.speaker = <<ResolvedSpeaker(rows[from[i]].transcript_data)>>]]

C22_SpeakerResolutionOrder ==
    (normalized /\ transcript_text.raised = "") =>
        LET kept == KeptWords(ChronologicalStable(ResolvedWords(transcripts))) IN
        LabelledWords(transcript_text.text)
            = [i \in DOMAIN kept |-> <<kept[i].speaker[1], kept[i].text>>]

(***************************************************************************)
(* C23: a fragment whose payload is a flat list of utterance entries is    *)
(* not dropped: when no extracted word is final, each entry's text stands  *)
(* in the returned text under the entry's own speaker.                     *)
(***************************************************************************)
ListEntries(rows) ==
    UNION {Range(rows[i].transcript_data.entries) :
              i \in {j \in DOMAIN rows : rows[j].transcript_data.kind = "list"}}

C23_FlatListEntriesContribute ==
    (/\ normalized
     /\ transcript_text.raised = ""
     /\ final_words(all_words(transcripts)) = <<>>) =>
        \A e \in ListEntries(transcripts) :
            <<e.speaker, e.text>> \in Range(LabelledWords(transcript_text.text))

(***************************************************************************)
(* C24: when the model answers with a JSON object, bare or wrapped in a    *)
(* leading json code fence and a trailing fence, the Extractor returns     *)
(* that object: the fenced {"overview": "x", ...} comes back with overview *)
(* "x".                                                                    *)
(***************************************************************************)
JsonObjects ==
    {r \in ResponsePool : JsonDecode(r).raised = "" /\ IsDict(JsonDecode(r).value)}

ModelAnswered ==
    /\ extracted
    /\ api_key # ""
    /\ model_outcome.kind \in {"text", "candidates"}

C24_FenceStripped ==
    ModelAnswered =>
        \A j \in JsonObjects :
            model_outcome.text \in {j, Fenced(j)} =>
                /\ extraction.raised = ""
                /\ extraction.value = JsonDecode(j).value

C24_Witness ==
    /\ ModelAnswered
    /\ model_outcome.text = Fenced(FullSummaryJson)
    /\ IsDict(extraction.value)
    /\ Lookup(extraction.value, "overview") = JStr("x")
    /\ Lookup(extraction.value, "context_group") = JStr("team-sync")

(***************************************************************************)
(* C27: a delivery whose secret is not the configured webhook secret is    *)
(* answered with status 401 and stores no fragment, whatever its body.     *)
(***************************************************************************)
C27_WrongSecretAnswered401 ==
    [][ (Delivered /\ webhook'.request.secret # WebhookSecret) =>
            /\ webhook'.response.status_code = 401
            /\ UNCHANGED meeting_transcripts ]_vars

(***************************************************************************)
(* C28: after successful runs only, the action_items, decisions and        *)
(* discussions lists a read returns hold exactly the rows exploded from    *)
(* the summary it returns, none left over from an older summary of the     *)
(* meeting.                                                                *)
(***************************************************************************)
OnlySuccessfulRuns ==
    /\ store_failures = 0
    /\ \A r \in Runs :
          \/ runs[r].pc = "idle"
          \/ runs[r].pc = "done" /\ runs[r].result.status = "success"

C28_ReadHasOnlyLatestRows ==
    (read_result.status = "success" /\ OnlySuccessfulRuns) =>
        /\ Len(read_result.action_items) = ListLen(read_result.content, "action_items")
        /\ Len(read_result.decisions) = ListLen(read_result.content, "key_decisions")
        /\ Len(read_result.discussions) = ListLen(read_result.content, "discussion_points")

(***************************************************************************)
(* C25: sessions map 1:1 to meetings: under any sequence of start and stop *)
(* requests a meeting has at most one recall_sessions row, and once the    *)
(* requests have ended the meeting's bot_id is that session's bot id.      *)
(***************************************************************************)
RecordingsEnded == \A c \in Recordings : recordings[c].pc \in {"idle", "done"}

C25_OneSessionPerMeeting ==
    \A m \in Meetings :
        /\ Len(SessionsOf(m)) <= 1
        /\ (RecordingsEnded /\ store_failures = 0 /\ Len(SessionsOf(m)) = 1) =>
               meetings[m].bot_id = SessionsOf(m)[1].bot_id

(***************************************************************************)
(* C26: the two normalizers agree: from the same stored fragments,         *)
(* _process_transcript_data and summarize_transcript build the same        *)
(* speaker-grouped text.                                                   *)
(***************************************************************************)
C26_NormalizersAgree ==
    (normalized /\ final_transcript.built) =>
        /\ (transcript_text.raised = "") = (final_transcript.raised = "")
        /\ transcript_text.text = final_transcript.text

(***************************************************************************)
(* C30: a direct update changes only the latest summary row of the         *)
(* meeting, the one whose summary_id it returns; every other row keeps its *)
(* content and its created_at.                                             *)
(***************************************************************************)
Updated(e) ==
    /\ edit_result[e].kind = "direct"
    /\ edit_result[e].pc = "update"
    /\ edit_result'[e].pc = "done"
    /\ edit_result'[e].status_code = 200

C30_UpdateTouchesOnlyLatest ==
    [][ \A e \in Edits :
            Updated(e) =>
                \A i \in DOMAIN meeting_summaries :
                    meeting_summaries[i].summary_id # edit_result'[e].summary_id =>
                        meeting_summaries'[i] = meeting_summaries[i] ]_vars

(***************************************************************************)
(* C29: meeting status does not get stuck: once every processing request   *)
(* of a meeting has finished, under any interleaving, its meeting_status   *)
(* is not "processing"; and a status "completed" is only set after a       *)
(* summary row of the meeting was persisted.                               *)
(***************************************************************************)
ProcessingsEnded == \A r \in Runs : processings[r].pc \in {"idle", "done"}

CompletedHasSummary ==
    \A m \in Meetings :
        meetings[m].meeting_status = "completed" => SummariesOf(m) # <<>>

C29_StatusNotStuck ==
    /\ ProcessingsEnded => \A m \in Meetings : meetings[m].meeting_status # "processing"
    /\ CompletedHasSummary
====
